---- MODULE Spec2Model ----
(***************************************************************************)
(* Trace lowering of yktrace (TirTrace::new and VarRenamer, tir.rs) over   *)
(* the SIR data model of ykpack (types.rs).                                *)
(*                                                                         *)
(* Rust Option<T> values are modelled as sequences of length 0 or 1:       *)
(* None is <<>> and Some(x) is <<x>>.  Vec<T> is a sequence; Rust indices  *)
(* are 0-based, so v[i] in the source is v[i + 1] here.  HashMap<K, V> is  *)
(* a function with a finite domain.  A panic (unwrap, expect, todo!,       *)
(* panic!, an index out of bounds, a failing debug assertion in a debug    *)
(* build) is the result Panic(msg).                                        *)
(***************************************************************************)
EXTENDS Integers, Sequences, FiniteSets, TLC

\* Longest location sequence handed to TirTrace::new.
MaxLocs == 11

\* Number of values one 64-bit half of a SerU128 can hold, scaled down so
\* that hi and lo stay inside the model checker's integers.
SerHalf == 16

----------------------------------------------------------------------------
\* Option and result helpers.

None == <<>>

Some(x) == <<x>>

Last(s) == s[Len(s)]

Front(s) == SubSeq(s, 1, Len(s) - 1)

Ok(v, r) == [ok |-> TRUE, val |-> v, rnm |-> r]

Panic(m) == [ok |-> FALSE, msg |-> m]

\* The rest of the computation F on the value and the renamer of r, unless
\* r is a panic, which propagates.
Bind(r, F(_, _)) ==
    CHOOSE y \in {IF x.ok THEN F(x.val, x.rnm) ELSE x : x \in {r}} : TRUE

----------------------------------------------------------------------------
\* ykpack data model (types.rs).

Place(l, proj) == [local |-> l, projection |-> proj]

Field(i) == [k |-> "Field", idx |-> i]

Deref == [k |-> "Deref"]

OpPlace(p) == [k |-> "Place", place |-> p]

OpConst(c) == [k |-> "Constant", c |-> c]

ConstBool(b) == [k |-> "Bool", v |-> b]

ConstInt(i) == [k |-> "Int", v |-> i]

Use(o) == [k |-> "Use", op |-> o]

BinaryOp(b, o1, o2) == [k |-> "BinaryOp", binop |-> b, op1 |-> o1, op2 |-> o2]

CheckedBinaryOp(b, o1, o2) ==
    [k |-> "CheckedBinaryOp", binop |-> b, op1 |-> o1, op2 |-> o2]

Ref(p) == [k |-> "Ref", place |-> p]

RvUnimplemented(s) == [k |-> "Unimplemented", s |-> s]

Nop == [k |-> "Nop"]

Assign(p, rv) == [k |-> "Assign", place |-> p, rvalue |-> rv]

StorageLive(l) == [k |-> "StorageLive", local |-> l]

StorageDead(l) == [k |-> "StorageDead", local |-> l]

StUnimplemented(s) == [k |-> "Unimplemented", s |-> s]

Enter(o, args, dest, off) ==
    [k |-> "Enter", operand |-> o, args |-> args, dest |-> dest, off |-> off]

Leave == [k |-> "Leave"]

Call(o, args, dest) == [k |-> "Call", operand |-> o, args |-> args, dest |-> dest]

Fn(s) == [k |-> "Fn", sym |-> s]

Unknown == [k |-> "Unknown"]

\* CallOperand::symbol
symbol(operand) == IF operand.k = "Fn" THEN Some(operand.sym) ELSE None

\* SerU128::new and SerU128::val
SerU128(v) == [hi |-> v \div SerHalf, lo |-> v % SerHalf]

val(s) == s.hi * SerHalf + s.lo

Goto(bb) == [k |-> "Goto", target_bb |-> bb]

SwitchInt(d, vs, ts, o) ==
    [k |-> "SwitchInt", discr |-> d, values |-> vs, target_bbs |-> ts,
     otherwise_bb |-> o]

Return == [k |-> "Return"]

Unreachable == [k |-> "Unreachable"]

Drop(p, bb) == [k |-> "Drop", location |-> p, target_bb |-> bb]

DropAndReplace(p, bb, v) ==
    [k |-> "DropAndReplace", location |-> p, target_bb |-> bb, value |-> v]

TermCall(o, args, dest) ==
    [k |-> "Call", operand |-> o, args |-> args, destination |-> dest]

TermAssert(c, e, bb) == [k |-> "Assert", cond |-> c, expected |-> e, target_bb |-> bb]

TermUnimplemented(s) == [k |-> "Unimplemented", s |-> s]

BasicBlock(stmts, term) == [stmts |-> stmts, term |-> term]

LocalDecl(ty) == [ty |-> ty]

Body(name, blocks, til, decls) ==
    [symbol_name |-> name, blocks |-> blocks, trace_inputs_local |-> til,
     local_decls |-> decls]

SirLoc(sym, bb) == [symbol_name |-> sym, bb_idx |-> bb]

\* yktrace TIR ops and guards (tir.rs).

TirStatement(st) == [op |-> "Statement", stmt |-> st]

TirGuard(g) == [op |-> "Guard", guard |-> g]

Guard(v, kind) == [val |-> v, kind |-> kind]

Integer(v) == [k |-> "Integer", v |-> v]

OtherInteger(vs) == [k |-> "OtherInteger", vs |-> vs]

Boolean(b) == [k |-> "Boolean", b |-> b]

\* no_sir building the other variant of InvalidTraceError.
no_sir_internal(symbol_name) == [k |-> "InternalError"]

\* InvalidTraceError::no_sir
no_sir(symbol_name) == [k |-> "NoSir", symbol_name |-> symbol_name]

InternalError == [k |-> "InternalError"]

----------------------------------------------------------------------------
\* The body registry SIR.bodies: the bodies the lowering is run against.
\* "main" is the traced function: its block 0 starts with the remnant of
\* start_tracing and it loops through block 1; "f" and "g" have SIR and are
\* inlined, "ext" is a named symbol without SIR.

P(l) == Place(l, <<>>)

L(l) == OpPlace(P(l))

TailCall(callee) == TermCall(Fn(callee), <<L(4)>>, Some(<<P(5), 8>>))

MainBlocks ==
    << \* bb0: remnant of start_tracing
       BasicBlock(<<StorageDead(2)>>, Goto(1)),
       \* bb1: loop head; two case values share the target bb3
       BasicBlock(<<Assign(P(2), Use(OpPlace(Place(1, <<Deref, Field(0)>>))))>>,
                  SwitchInt(P(2), <<SerU128(0), SerU128(1), SerU128(18)>>,
                            <<2, 3, 3>>, 4)),
       \* bb2: call of a function with SIR
       BasicBlock(<<StorageLive(3)>>,
                  TermCall(Fn("f"), <<L(2), OpConst(ConstInt(7))>>,
                           Some(<<P(6), 5>>))),
       \* bb3: call of a named symbol without SIR
       BasicBlock(<<Nop>>,
                  TermCall(Fn("ext"), <<L(2)>>,
                           Some(<<Place(4, <<Deref>>), 5>>))),
       \* bb4
       BasicBlock(<<StUnimplemented("stmt")>>,
                  SwitchInt(P(3), <<SerU128(0)>>, <<6>>, 7)),
       \* bb5: loop back edge
       BasicBlock(<<Assign(P(3), BinaryOp("Lt", L(6), OpConst(ConstInt(10))))>>,
                  TermAssert(P(3), TRUE, 1)),
       \* bb6: the call of stop_tracing
       BasicBlock(<<StorageLive(3), StorageLive(4), StorageLive(5),
                    Assign(P(3), Use(OpConst(ConstBool(FALSE)))),
                    Assign(P(4), Ref(P(1)))>>,
                  TailCall("stop_tracing")),
       \* bb7
       BasicBlock(<<>>,
                  SwitchInt(P(2),
                            <<SerU128(3), SerU128(4), SerU128(5), SerU128(6),
                              SerU128(7), SerU128(8), SerU128(9)>>,
                            <<9, 10, 11, 12, 13, 14, 15>>, 16)),
       \* bb8: resume block of the tail calls
       BasicBlock(<<>>, Return),
       \* bb9: as bb6 with storage-dead markers
       BasicBlock(<<StorageDead(3), StorageDead(4), StorageDead(5),
                    Assign(P(3), Use(OpConst(ConstBool(FALSE)))),
                    Assign(P(4), Ref(P(1)))>>,
                  TailCall("stop_tracing")),
       \* bb10: as bb6, calling another function with SIR
       BasicBlock(<<StorageLive(3), StorageLive(4), StorageLive(5),
                    Assign(P(3), Use(OpConst(ConstBool(FALSE)))),
                    Assign(P(4), Ref(P(1)))>>,
                  TailCall("g")),
       \* bb11: as bb6, assigning true
       BasicBlock(<<StorageLive(3), StorageLive(4), StorageLive(5),
                    Assign(P(3), Use(OpConst(ConstBool(TRUE)))),
                    Assign(P(4), Ref(P(1)))>>,
                  TailCall("stop_tracing")),
       \* bb12: as bb6 with a statement in place of the last assignment
       BasicBlock(<<StorageLive(3), StorageLive(4), StorageLive(5),
                    Assign(P(3), Use(OpConst(ConstBool(FALSE)))),
                    Nop>>,
                  TailCall("stop_tracing")),
       \* bb13: call through an unknown operand
       BasicBlock(<<>>, TermCall(Unknown, <<L(2)>>, Some(<<P(6), 5>>))),
       \* bb14: diverging call
       BasicBlock(<<>>, TermCall(Fn("f"), <<L(2), L(3)>>, None)),
       \* bb15
       BasicBlock(<<>>, Unreachable),
       \* bb16
       BasicBlock(<<StorageDead(3)>>, Drop(P(4), 17)),
       \* bb17
       BasicBlock(<<>>, TermUnimplemented("term")),
       \* bb18: diverging call of a named symbol without SIR
       BasicBlock(<<>>, TermCall(Fn("ext"), <<L(2)>>, None)) >>

FBlocks ==
    << \* bb0
       BasicBlock(<<StorageLive(3),
                    Assign(P(0), CheckedBinaryOp("Add", L(1), L(2))),
                    Assign(P(3), Ref(P(0)))>>,
                  TermCall(Fn("g"), <<L(0), L(3)>>, Some(<<P(0), 1>>))),
       \* bb1
       BasicBlock(<<StorageDead(0),
                    Assign(P(3), Use(OpPlace(Place(0, <<Field(1)>>))))>>,
                  SwitchInt(P(2), <<SerU128(0), SerU128(1)>>, <<2, 4>>, 3)),
       \* bb2
       BasicBlock(<<StorageDead(3)>>, Return),
       \* bb3
       BasicBlock(<<StorageLive(0)>>, Return),
       \* bb4: a call of stop_tracing inside the inlined function
       BasicBlock(<<StorageLive(1), StorageLive(2), StorageLive(3),
                    Assign(P(3), Use(OpConst(ConstBool(FALSE)))),
                    Assign(P(2), Ref(P(1)))>>,
                  TermCall(Fn("stop_tracing"), <<L(1)>>, Some(<<P(3), 2>>))) >>

GBlocks ==
    << BasicBlock(<<Assign(P(0), BinaryOp("Add", L(1), L(2)))>>, Return) >>

StopBlocks == << BasicBlock(<<Nop>>, Return) >>

Decls(tys) == [i \in 1..Len(tys) |-> LocalDecl(tys[i])]

SIR ==
    [bodies |->
        [s \in {"main", "f", "g", "stop_tracing"} |->
            CASE s = "main" ->
                    Body("main", MainBlocks, Some(1),
                         Decls(<<10, 11, 12, 13, 14, 10, 12>>))
              [] s = "f" ->
                    Body("f", FBlocks, None, Decls(<<12, 12, 16, 15>>))
              [] s = "g" ->
                    Body("g", GBlocks, None, Decls(<<12, 12, 15>>))
              [] s = "stop_tracing" ->
                    Body("stop_tracing", StopBlocks, None, Decls(<<10, 14>>))]]

\* HashMap::get on SIR.bodies
bodies_get(sym) ==
    IF sym \in DOMAIN SIR.bodies THEN Some(SIR.bodies[sym]) ELSE None

\* The symbols s for which s.contains("stop_tracing") holds.
contains_stop_tracing(s) == s \in {"stop_tracing"}

Symbols == DOMAIN SIR.bodies \cup {"ext"}

\* Every location a recorded trace can name.
AllLocs ==
    {SirLoc(s, 0) : s \in Symbols \ DOMAIN SIR.bodies}
    \cup UNION {{SirLoc(s, b - 1) : b \in 1..Len(SIR.bodies[s].blocks)} :
                   s \in DOMAIN SIR.bodies}

----------------------------------------------------------------------------
\* VarRenamer (tir.rs).

\* VarRenamer::new
VarRenamer_new ==
    [stack |-> <<0>>, offset |-> 0, acc |-> None, returns |-> <<>>,
     used_decls |-> [l \in {} |-> l]]

\* HashMap::insert
insert(m, key, v) ==
    [x \in DOMAIN m \cup {key} |-> IF x = key THEN v ELSE m[x]]

\* VarRenamer::used_decl
used_decl(rnm, l, decl) == [rnm EXCEPT !.used_decls = insert(@, l, decl)]

\* VarRenamer::done
done(rnm) == rnm.used_decls

\* VarRenamer::offset
offset(rnm) == rnm.offset

\* VarRenamer::init_acc
init_acc(rnm, num_locals) ==
    IF rnm.acc = None THEN [rnm EXCEPT !.acc = Some(num_locals)] ELSE rnm

\* enter keeping the offset of the caller in force.
enter_keeps_offset(rnm, num_locals, dest) ==
    IF rnm.acc = None
    THEN Panic("unwrap on None")
    ELSE Ok(0, [rnm EXCEPT !.stack = Append(@, rnm.offset),
                           !.acc = Some(rnm.acc[1] + num_locals),
                           !.returns = Append(@, dest)])

\* enter keeping the accumulator as it is.
enter_keeps_acc(rnm, num_locals, dest) ==
    IF rnm.acc = None
    THEN Panic("unwrap on None")
    ELSE Ok(0, [rnm EXCEPT !.offset = rnm.acc[1],
                           !.stack = Append(@, rnm.acc[1]),
                           !.returns = Append(@, dest)])

\* VarRenamer::enter
enter(rnm, num_locals, dest) ==
    IF rnm.acc = None
    THEN Panic("unwrap on None")
    ELSE Ok(0, [rnm EXCEPT !.offset = rnm.acc[1],
                           !.stack = Append(@, rnm.acc[1]),
                           !.acc = Some(rnm.acc[1] + num_locals),
                           !.returns = Append(@, dest)])

\* Vec::pop, which leaves an empty vector empty
pop(v) == IF v = <<>> THEN v ELSE Front(v)

\* leave popping both stacks and keeping the offset of the callee in force.
leave_keeps_offset(rnm) ==
    IF pop(rnm.stack) # <<>>
    THEN Ok(0, [rnm EXCEPT !.stack = pop(@), !.returns = pop(@)])
    ELSE Panic("Unbalanced enter/leave statements!")

\* leave falling back to offset 0 when the stack runs empty.
leave_unchecked(rnm) ==
    Ok(0, [rnm EXCEPT !.stack = pop(@), !.returns = pop(@),
                      !.offset = IF pop(rnm.stack) # <<>>
                                 THEN Last(pop(rnm.stack)) ELSE 0])

\* VarRenamer::leave
leave(rnm) ==
    LET stack == pop(rnm.stack)
        returns == pop(rnm.returns)
    IN  IF stack # <<>>
        THEN Ok(0, [rnm EXCEPT !.stack = stack, !.returns = returns,
                               !.offset = Last(stack)])
        ELSE Panic("Unbalanced enter/leave statements!")

\* VarRenamer::rename_local
rename_local(rnm, local, body) ==
    IF local + 1 \in DOMAIN body.local_decls
    THEN Ok(local + rnm.offset,
            used_decl(rnm, local + rnm.offset, body.local_decls[local + 1]))
    ELSE Panic("index out of bounds")

\* VarRenamer::rename_place
rename_place(rnm, place, body) ==
    IF place.local = 0
    THEN IF rnm.returns # <<>>
         THEN Ok(Last(rnm.returns), rnm)
         ELSE Panic("Expected return value!")
    ELSE Bind(rename_local(rnm, place.local, body),
              LAMBDA v, m : Ok([place EXCEPT !.local = v], m))

\* VarRenamer::rename_operand
rename_operand(rnm, operand, body) ==
    IF operand.k = "Place"
    THEN Bind(rename_place(rnm, operand.place, body),
              LAMBDA v, m : Ok(OpPlace(v), m))
    ELSE Ok(operand, rnm)

\* The two operands of a binary operation, renamed left to right.
rename_operands2(rnm, op1, op2, body) ==
    Bind(rename_operand(rnm, op1, body),
         LAMBDA v1, m1 : Bind(rename_operand(m1, op2, body),
                              LAMBDA v2, m2 : Ok(<<v1, v2>>, m2)))

\* VarRenamer::rename_rvalue
rename_rvalue(rnm, rvalue, body) ==
    CASE rvalue.k = "Use" ->
            Bind(rename_operand(rnm, rvalue.op, body),
                 LAMBDA v, m : Ok(Use(v), m))
      [] rvalue.k = "BinaryOp" ->
            Bind(rename_operands2(rnm, rvalue.op1, rvalue.op2, body),
                 LAMBDA v, m : Ok(BinaryOp(rvalue.binop, v[1], v[2]), m))
      [] rvalue.k = "CheckedBinaryOp" ->
            Bind(rename_operands2(rnm, rvalue.op1, rvalue.op2, body),
                 LAMBDA v, m : Ok(CheckedBinaryOp(rvalue.binop, v[1], v[2]), m))
      [] rvalue.k = "Ref" ->
            Bind(rename_place(rnm, rvalue.place, body),
                 LAMBDA v, m : Ok(Ref(v), m))
      [] rvalue.k = "Unimplemented" -> Ok(rvalue, rnm)

RECURSIVE rename_args_from(_, _, _, _, _)
\* The map over the arguments in rename_args, from argument i on.
rename_args_from(rnm, args, i, body, out) ==
    IF i > Len(args) THEN Ok(out, rnm)
    ELSE Bind(rename_operand(rnm, args[i], body),
              LAMBDA v, m : rename_args_from(m, args, i + 1, body,
                                             Append(out, v)))

\* VarRenamer::rename_args
rename_args(rnm, args, body) == rename_args_from(rnm, args, 1, body, <<>>)

----------------------------------------------------------------------------
\* TirTrace::new (tir.rs): one iteration of the loop over the locations.

\* The match on one statement of the block (tir.rs lines 61-78).
lower_stmt(rnm, stmt, body) ==
    CASE stmt.k = "StorageLive" ->
            Bind(rename_local(rnm, stmt.local, body),
                 LAMBDA v, m : Ok(StorageLive(v), m))
      [] stmt.k = "StorageDead" ->
            Bind(rename_local(rnm, stmt.local, body),
                 LAMBDA v, m : Ok(StorageDead(v), m))
      [] stmt.k = "Assign" ->
            Bind(rename_place(rnm, stmt.place, body),
                 LAMBDA vp, mp :
                    Bind(rename_rvalue(mp, stmt.rvalue, body),
                         LAMBDA vr, mr : Ok(Assign(vp, vr), mr)))
      [] stmt.k \in {"Nop", "Unimplemented"} -> Ok(stmt, rnm)
      [] OTHER -> Panic("internal error: entered unreachable code")

RECURSIVE lower_stmts_skip_nop(_, _, _, _, _)
\* lower_stmts pushing no op for a Nop statement.
lower_stmts_skip_nop(rnm, stmts, i, body, out) ==
    IF i > Len(stmts) THEN Ok(out, rnm)
    ELSE IF stmts[i].k = "Nop"
    THEN lower_stmts_skip_nop(rnm, stmts, i + 1, body, out)
    ELSE Bind(lower_stmt(rnm, stmts[i], body),
              LAMBDA v, m : lower_stmts_skip_nop(m, stmts, i + 1, body,
                                                 Append(out, TirStatement(v))))

RECURSIVE lower_stmts(_, _, _, _, _)
\* The loop over the statements of the block, from statement i on.
lower_stmts(rnm, stmts, i, body, out) ==
    IF i > Len(stmts) THEN Ok(out, rnm)
    ELSE Bind(lower_stmt(rnm, stmts[i], body),
              LAMBDA v, m : lower_stmts(m, stmts, i + 1, body,
                                        Append(out, TirStatement(v))))

RECURSIVE arg_decls(_, _, _, _)
\* The loop giving the callee's arguments local decls, from lidx on.
arg_decls(rnm, lidx, nargs, callbody) ==
    IF lidx > nargs THEN Ok(0, rnm)
    ELSE IF lidx + 1 \in DOMAIN callbody.local_decls
         THEN arg_decls(used_decl(rnm, rnm.offset + lidx,
                                  callbody.local_decls[lidx + 1]),
                        lidx + 1, nargs, callbody)
         ELSE Panic("index out of bounds")

\* The branch for a callee with SIR (tir.rs lines 103-130).
lower_enter(rnm, operand, newargs, ret_val, callbody) ==
    Bind(enter(rnm, Len(callbody.local_decls), ret_val),
         LAMBDA ve, me :
            Bind(arg_decls(me, 1, Len(newargs), callbody),
                 LAMBDA vd, md :
                    Ok(<<TirStatement(Enter(operand, newargs, Some(ret_val),
                                            offset(md)))>>, md)))

\* The Call arm once the destination is renamed (tir.rs lines 99-140).
lower_call(rnm, term, ret_val, body) ==
    IF symbol(term.operand) = None
    THEN Panic("not yet implemented: Unknown callee encountered")
    ELSE Bind(rename_args(rnm, term.args, body),
              LAMBDA newargs, m :
                 IF bodies_get(symbol(term.operand)[1]) # None
                 THEN lower_enter(m, term.operand, newargs, ret_val,
                                  bodies_get(symbol(term.operand)[1])[1])
                 ELSE Ok(<<TirStatement(Call(term.operand, newargs,
                                             Some(ret_val)))>>, m))

\* lower_term pushing nothing for a call without destination.
lower_term_skips_diverging(rnm, term, body) ==
    CASE term.k = "Call" ->
            IF term.destination = None THEN Ok(<<>>, rnm)
            ELSE Bind(rename_place(rnm, term.destination[1][1], body),
                      LAMBDA v, m : lower_call(m, term, v, body))
      [] term.k = "Return" ->
            Bind(leave(rnm), LAMBDA v, m : Ok(<<TirStatement(Leave)>>, m))
      [] OTHER -> Ok(<<>>, rnm)

\* lower_term leaving an inlined call without pushing a Leave op.
lower_term_silent_leave(rnm, term, body) ==
    CASE term.k = "Call" ->
            IF term.destination = None THEN Panic("unwrap on None")
            ELSE Bind(rename_place(rnm, term.destination[1][1], body),
                      LAMBDA v, m : lower_call(m, term, v, body))
      [] term.k = "Return" -> Bind(leave(rnm), LAMBDA v, m : Ok(<<>>, m))
      [] OTHER -> Ok(<<>>, rnm)

\* The match on the terminator (tir.rs lines 82-152): the ops it pushes.
lower_term(rnm, term, body) ==
    CASE term.k = "Call" ->
            IF term.destination = None THEN Panic("unwrap on None")
            ELSE Bind(rename_place(rnm, term.destination[1][1], body),
                      LAMBDA v, m : lower_call(m, term, v, body))
      [] term.k = "Return" ->
            Bind(leave(rnm), LAMBDA v, m : Ok(<<TirStatement(Leave)>>, m))
      [] OTHER -> Ok(<<>>, rnm)

RECURSIVE position(_, _, _)
\* Iterator::position: the first index from i on (0-based) holding e.
position(v, e, i) ==
    IF i + 1 > Len(v) THEN None
    ELSE IF v[i + 1] = e THEN Some(i) ELSE position(v, e, i + 1)

\* values.iter().map(|v| v.val()).collect()
vals(values) == [i \in 1..Len(values) |-> val(values[i])]

\* The guard for the edge position found (tir.rs lines 174-188).
edge_guard(term, edge_idx, next_blk, debug) ==
    IF edge_idx # None
    THEN IF edge_idx[1] + 1 \in DOMAIN term.values
         THEN Ok(Some(Guard(term.discr,
                            Integer(val(term.values[edge_idx[1] + 1])))), 0)
         ELSE Panic("index out of bounds")
    ELSE IF debug /\ next_blk # term.otherwise_bb
         THEN Panic("assertion failed: next_blk == otherwise_bb")
         ELSE Ok(Some(Guard(term.discr, OtherInteger(vals(term.values)))), 0)

\* switch_guard guessing the otherwise edge when no location follows.
switch_guard_guesses(term, peek, debug) ==
    IF peek = None
    THEN Ok(Some(Guard(term.discr, OtherInteger(vals(term.values)))), 0)
    ELSE edge_guard(term, position(term.target_bbs, peek[1].bb_idx, 0),
                    peek[1].bb_idx, debug)

\* The guard of a SwitchInt terminator (tir.rs lines 163-189).
switch_guard(term, peek, debug) ==
    IF peek = None THEN Panic("no block to peek at")
    ELSE edge_guard(term, position(term.target_bbs, peek[1].bb_idx, 0),
                    peek[1].bb_idx, debug)

\* assert_guard guarding on the negation of the expected value.
assert_guard_negated(term) ==
    Ok(Some(Guard(term.cond, Boolean(~term.expected))), 0)

\* The guard of an Assert terminator (tir.rs lines 190-197).
assert_guard(term) == Ok(Some(Guard(term.cond, Boolean(term.expected))), 0)

\* guard_of taking Unreachable for one more terminator without a guard.
guard_of_unreachable_passes(term, peek, debug) ==
    CASE term.k \in {"Goto", "Return", "Drop", "DropAndReplace", "Call",
                     "Unimplemented", "Unreachable"} -> Ok(None, 0)
      [] term.k = "SwitchInt" -> switch_guard(term, peek, debug)
      [] term.k = "Assert" -> assert_guard(term)

\* The conversion of the terminator to a guard (tir.rs lines 155-198).
guard_of(term, peek, debug) ==
    CASE term.k \in {"Goto", "Return", "Drop", "DropAndReplace", "Call",
                     "Unimplemented"} -> Ok(None, 0)
      [] term.k = "Unreachable" -> Panic("Traced unreachable code")
      [] term.k = "SwitchInt" -> switch_guard(term, peek, debug)
      [] term.k = "Assert" -> assert_guard(term)

\* if guard.is_some() { ops.push(TirOp::Guard(guard.unwrap())) }
guard_ops(guard) == IF guard = None THEN <<>> ELSE <<TirGuard(guard[1])>>

\* One iteration of the loop on block blk of body (tir.rs lines 60-202):
\* the ops pushed for the statements, the terminator and the guard.
lower_block(rnm, blk, body, peek, debug) ==
    Bind(lower_stmts(rnm, blk.stmts, 1, body, <<>>),
         LAMBDA vs, ms :
            Bind(lower_term(ms, blk.term, body),
                 LAMBDA vt, mt :
                    Bind(guard_of(blk.term, peek, debug),
                         LAMBDA vg, mg :
                            Ok([stmts |-> vs, term |-> vt,
                                guard |-> guard_ops(vg)], mt))))

\* One iteration of the loop for a location whose body is known
\* (tir.rs lines 45-202).
lower_loc(rnm, loc, body, peek, debug) ==
    IF loc.bb_idx + 1 \notin DOMAIN body.blocks
    THEN Panic("index out of bounds")
    ELSE lower_block(init_acc(rnm, Len(body.local_decls)),
                     body.blocks[loc.bb_idx + 1], body, peek, debug)

----------------------------------------------------------------------------
\* TirTrace::new: trimming the remnants of start_tracing and stop_tracing.

IsStmt(o, kind) == o.op = "Statement" /\ o.stmt.k = kind

\* The match on the last op (tir.rs lines 209-214).
trim_stop(ops, debug) ==
    IF ops # <<>> /\ IsStmt(Last(ops), "Enter") /\ Last(ops).stmt.operand.k = "Fn"
    THEN IF debug /\ ~contains_stop_tracing(Last(ops).stmt.operand.sym)
         THEN Panic("assertion failed: s.contains(stop_tracing)")
         ELSE Ok(pop(ops), 0)
    ELSE Panic("Expected call to stop_tracing here")

\* The match on the Assign before it (tir.rs lines 215-218).
trim_assign(ops) ==
    IF ops # <<>> /\ IsStmt(Last(ops), "Assign")
    THEN Ok(pop(ops), 0)
    ELSE Panic("Expected Assign here")

\* The match on the Assign of false before it (tir.rs lines 219-225).
trim_assign_false(ops) ==
    IF ops # <<>> /\ IsStmt(Last(ops), "Assign")
       /\ Last(ops).stmt.rvalue = Use(OpConst(ConstBool(FALSE)))
    THEN Ok(pop(ops), 0)
    ELSE Panic("Expected Assign(_, false) here")

RECURSIVE trim_markers_dead(_, _)
\* trim_markers popping storage-dead markers.
trim_markers_dead(ops, n) ==
    IF n = 0 THEN Ok(ops, 0)
    ELSE IF ops # <<>> /\ IsStmt(Last(ops), "StorageDead")
         THEN trim_markers_dead(pop(ops), n - 1)
         ELSE Panic("Expected StorageDead here")

RECURSIVE trim_markers(_, _)
\* The loop popping storage markers, n iterations left (tir.rs lines 226-231).
trim_markers(ops, n) ==
    IF n = 0 THEN Ok(ops, 0)
    ELSE IF ops # <<>> /\ IsStmt(Last(ops), "StorageLive")
         THEN trim_markers(pop(ops), n - 1)
         ELSE Panic("Expected StorageLive here")

\* trim_head checking the first op and leaving it in place.
trim_head_kept(ops) ==
    IF ops = <<>> THEN Panic("removal index (is 0) should be < len (is 0)")
    ELSE IF IsStmt(ops[1], "StorageDead")
         THEN Ok(ops, 0)
         ELSE Panic("Expected StorageDead here")

\* ops.remove(0) and the match on the op removed (tir.rs lines 232-235).
trim_head(ops) ==
    IF ops = <<>> THEN Panic("removal index (is 0) should be < len (is 0)")
    ELSE IF IsStmt(ops[1], "StorageDead")
         THEN Ok(Tail(ops), 0)
         ELSE Panic("Expected StorageDead here")

\* The whole trimming (tir.rs lines 205-235).
trim(ops, debug) ==
    Bind(trim_stop(ops, debug),
         LAMBDA a, ma :
            Bind(trim_assign(a),
                 LAMBDA b, mb :
                    Bind(trim_assign_false(b),
                         LAMBDA c, mc :
                            Bind(trim_markers(c, 3),
                                 LAMBDA d, md : trim_head(d)))))

\* len counting the local declarations of the trace.
len_of_decls(trace) == Cardinality(DOMAIN trace.local_decls)

\* TirTrace::len
len(trace) == Len(trace.ops)

\* TirTrace::inputs
inputs(trace) == trace.trace_inputs_local

----------------------------------------------------------------------------
\* The state of one run of TirTrace::new on a recorded trace.

VARIABLES
    peeked,              \* itr.peek(): the next location of the trace, if any
    consumed,            \* the locations itr.next() has returned, in order
    callers,             \* resume locations of the traced program's open calls
    ops,                 \* the local ops of TirTrace::new
    rnm,                 \* the local rnm of TirTrace::new
    trace_inputs_local,  \* the local trace_inputs_local of TirTrace::new
    origin,              \* for each op pushed, the location and part it is from
    built,               \* ops as the loop left it, kept when trimming runs
    outcome,             \* what TirTrace::new has returned, if it has
    debug                \* whether the build has debug assertions

\* SIRInterpreter (ykbh): its fields, the locals of interpret, and memory.
VARIABLES
    frames,              \* self.frames
    bbidx,               \* self.bbidx
    bodies,              \* the local bodies of interpret
    returns,             \* the local returns of interpret
    mem,                 \* the bytes of memory, by address
    heap,                \* the blocks alloc has handed out, freed ones included
    status               \* how far the interpreter has got

\* Lowerings running side by side, one per thread, and the registry of
\* bodies they share.
VARIABLES
    sessions,            \* for each thread, the state of its TirTrace::new
    registry,            \* SIR: the bodies by symbol name
    read,                \* what the last access trace[idx] gave, if any
    ser                  \* the 128-bit wrapper last built and its val(), if any

lvars ==
    <<peeked, consumed, callers, ops, rnm, trace_inputs_local, origin, built,
      outcome, debug>>

ivars == <<frames, bbidx, bodies, returns, mem, heap, status>>

cvars == <<sessions, registry, read, ser>>

vars == <<lvars, ivars, cvars>>

\* No interpreter has been constructed.
NoInterpreter ==
    /\ frames = <<>>
    /\ bbidx = 0
    /\ bodies = <<>>
    /\ returns = <<>>
    /\ mem = <<>>
    /\ heap = <<>>
    /\ status = [k |-> "None", msg |-> ""]

\* No thread is lowering; the registry is populated.
NoSessions ==
    /\ sessions = <<>>
    /\ registry = SIR
    /\ read = None
    /\ ser = None

Running == [k |-> "Running"]

Returned(res) == [k |-> "Returned", res |-> res]

\* A panic at "loop" (an iteration of the loop) or at "trim".
Panicked(at, msg) == [k |-> "Panicked", at |-> at, msg |-> msg]

ResOk(trace) == [k |-> "Ok", trace |-> trace]

ResErr(err) == [k |-> "Err", err |-> err]

TirTrace(o, til, decls) ==
    [ops |-> o, trace_inputs_local |-> til, local_decls |-> decls]

Range(v) == {v[i] : i \in DOMAIN v}

BlockOf(loc) == SIR.bodies[loc.symbol_name].blocks[loc.bb_idx + 1]

\* The locations the traced program can run right after the block at loc,
\* each with the open calls it then has: the targets of the terminator.
after(loc, cs) ==
    LET term == BlockOf(loc).term
        here(bb) == SirLoc(loc.symbol_name, bb)
    IN  CASE term.k \in {"Goto", "Drop", "DropAndReplace", "Assert"} ->
                {<<here(term.target_bb), cs>>}
          [] term.k = "SwitchInt" ->
                {<<here(t), cs>> :
                    t \in Range(term.target_bbs) \cup {term.otherwise_bb}}
          [] term.k = "Return" ->
                IF cs = <<>> THEN {} ELSE {<<Last(cs), Front(cs)>>}
          [] term.k = "Call" ->
                IF term.destination = None THEN {}
                ELSE LET resume == here(term.destination[1][2])
                         sym == symbol(term.operand)
                     IN  IF sym = None THEN {<<resume, cs>>}
                         ELSE IF bodies_get(sym[1]) # None
                         THEN {<<SirLoc(sym[1], 0), Append(cs, resume)>>}
                         ELSE {<<resume, cs>>, <<SirLoc(sym[1], 0), cs>>}
          [] OTHER -> {}

\* What the trace holds after the location being lowered: nothing more, or
\* one of the locations the program can run next.
Following(loc, cs) ==
    {<<None, cs>>}
    \cup (IF Len(consumed) + 1 < MaxLocs
          THEN {<<Some(n[1]), n[2]>> : n \in after(loc, cs)}
          ELSE {})

\* The origin of the ops one iteration pushes: n is the position of the
\* location in the trace, part and i say which statement, terminator or
\* guard of its block, off is rnm.offset when the iteration started.
Origins(n, off, pushed) ==
    [i \in 1..Len(pushed.stmts) |->
        [n |-> n, part |-> "stmt", i |-> i, off |-> off]]
    \o [i \in 1..Len(pushed.term) |->
        [n |-> n, part |-> "term", i |-> 0, off |-> off]]
    \o [i \in 1..Len(pushed.guard) |->
        [n |-> n, part |-> "guard", i |-> 0, off |-> off]]

Init ==
    /\ peeked \in {None} \cup {Some(l) : l \in AllLocs}
    /\ consumed = <<>>
    /\ callers = <<>>
    /\ ops = <<>>
    /\ rnm = VarRenamer_new
    /\ trace_inputs_local = None
    /\ origin = <<>>
    /\ built = <<>>
    /\ outcome = Running
    /\ debug \in BOOLEAN
    /\ NoInterpreter
    /\ NoSessions

\* itr.next() returns a location whose symbol has no SIR (tir.rs lines 38-43).
NoSirReturn ==
    /\ outcome = Running
    /\ peeked # None
    /\ bodies_get(peeked[1].symbol_name) = None
    /\ consumed' = Append(consumed, peeked[1])
    /\ outcome' = Returned(ResErr(no_sir(peeked[1].symbol_name)))
    /\ UNCHANGED <<peeked, callers, ops, rnm, trace_inputs_local, origin,
                   built, debug>>
    /\ UNCHANGED ivars
    /\ UNCHANGED cvars

\* forwarded_inputs keeping what the first location stored.
forwarded_inputs_first(body) ==
    IF consumed = <<>> THEN body.trace_inputs_local ELSE trace_inputs_local

\* trace_inputs_local = body.trace_inputs_local (tir.rs line 46).
forwarded_inputs(body) == body.trace_inputs_local

\* Lowered leaving the location in the trace for the next iteration.
lowered_keeps_location(loc, body, nx, r) ==
    /\ UNCHANGED consumed
    /\ IF r.ok
       THEN /\ ops' = ops \o r.val.stmts \o r.val.term \o r.val.guard
            /\ origin' = origin \o Origins(Len(consumed) + 1, rnm.offset, r.val)
            /\ rnm' = r.rnm
            /\ trace_inputs_local' = forwarded_inputs(body)
            /\ UNCHANGED <<peeked, callers>>
            /\ UNCHANGED outcome
       ELSE /\ outcome' = Panicked("loop", r.msg)
            /\ UNCHANGED <<peeked, callers, ops, rnm, trace_inputs_local, origin>>

\* The effect of one iteration on location loc with result r of lower_loc,
\* nx being what follows loc in the trace.
Lowered(loc, body, nx, r) ==
    /\ consumed' = Append(consumed, loc)
    /\ IF r.ok
       THEN /\ ops' = ops \o r.val.stmts \o r.val.term \o r.val.guard
            /\ origin' = origin \o Origins(Len(consumed) + 1, rnm.offset, r.val)
            /\ rnm' = r.rnm
            /\ trace_inputs_local' = forwarded_inputs(body)
            /\ peeked' = nx[1]
            /\ callers' = nx[2]
            /\ UNCHANGED outcome
       ELSE /\ outcome' = Panicked("loop", r.msg)
            /\ UNCHANGED <<peeked, callers, ops, rnm, trace_inputs_local, origin>>

\* One iteration of the loop (tir.rs lines 37-203).
LowerLoc ==
    /\ outcome = Running
    /\ peeked # None
    /\ bodies_get(peeked[1].symbol_name) # None
    /\ \E nx \in Following(peeked[1], callers) :
          Lowered(peeked[1], bodies_get(peeked[1].symbol_name)[1], nx,
                  lower_loc(rnm, peeked[1],
                            bodies_get(peeked[1].symbol_name)[1], nx[1], debug))
    /\ UNCHANGED <<built, debug>>
    /\ UNCHANGED ivars
    /\ UNCHANGED cvars

\* The result of TirTrace::new once trimming gave t.
Trimmed(t) ==
    IF t.ok
    THEN /\ ops' = t.val
         /\ outcome' = Returned(ResOk(TirTrace(t.val, trace_inputs_local,
                                               done(rnm))))
    ELSE /\ outcome' = Panicked("trim", t.msg)
         /\ UNCHANGED ops

\* The end of the trace: trimming and the result (tir.rs lines 205-242).
Trim ==
    /\ outcome = Running
    /\ peeked = None
    /\ built' = ops
    /\ Trimmed(trim(ops, debug))
    /\ UNCHANGED <<peeked, consumed, callers, rnm, trace_inputs_local, origin,
                   debug>>
    /\ UNCHANGED ivars
    /\ UNCHANGED cvars

Next == NoSirReturn \/ LowerLoc \/ Trim

Spec == Init /\ [][Next]_vars

\* The loop of TirTrace::new is sequential code: as long as the run has not
\* ended, iterations keep being taken, which is weak fairness of Next.
LiveSpec ==
    Init /\ [][Next]_vars /\ WF_vars(Next)

----------------------------------------------------------------------------
\* Several threads, each lowering the trace it recorded (lib.rs lines
\* 130-158): TirTrace::new as a function of its locals, one iteration at a
\* time, reading the shared registry.

\* Most iterations of the loop of work a thread records.
MaxWork == 3

\* The threads of trace_concurrent: the spawned one and the spawning one.
Threads == 2

\* The locals of TirTrace::new(trace) before the first iteration, next
\* being the number of locations itr.next() has returned.
Session(locs) ==
    [locs |-> locs, next |-> 0, ops |-> <<>>, rnm |-> VarRenamer_new,
     trace_inputs_local |-> None, outcome |-> Running]

\* itr.peek() while the location s.next + 1 is being lowered.
itr_peek(s) ==
    IF s.next + 2 <= Len(s.locs) THEN Some(s.locs[s.next + 2]) ELSE None

\* The locals after an iteration whose block gave r (tir.rs lines 45-202).
session_lowered(s, body, r) ==
    IF r.ok
    THEN [s EXCEPT !.next = @ + 1,
                   !.ops = @ \o r.val.stmts \o r.val.term \o r.val.guard,
                   !.rnm = r.rnm,
                   !.trace_inputs_local = body.trace_inputs_local]
    ELSE [s EXCEPT !.next = @ + 1, !.outcome = Panicked("loop", r.msg)]

\* The result once trimming gave t (tir.rs lines 205-242).
session_trimmed(s, t) ==
    IF t.ok
    THEN [s EXCEPT !.ops = t.val,
                   !.outcome = Returned(ResOk(TirTrace(t.val,
                                                       s.trace_inputs_local,
                                                       done(s.rnm))))]
    ELSE [s EXCEPT !.outcome = Panicked("trim", t.msg)]

\* One iteration of the loop of TirTrace::new, or what follows the loop,
\* in a thread whose locals are s, reg being the registry (tir.rs lines
\* 37-242).
iterate(s, reg, dbg) ==
    IF s.next >= Len(s.locs)
    THEN CHOOSE y \in {session_trimmed(s, t) : t \in {trim(s.ops, dbg)}} : TRUE
    ELSE IF s.locs[s.next + 1].symbol_name \notin DOMAIN reg.bodies
    THEN [s EXCEPT !.next = @ + 1,
                   !.outcome = Returned(ResErr(
                                   no_sir(s.locs[s.next + 1].symbol_name)))]
    ELSE CHOOSE y \in
            {session_lowered(s, reg.bodies[s.locs[s.next + 1].symbol_name], r) :
                r \in {lower_loc(s.rnm, s.locs[s.next + 1],
                                 reg.bodies[s.locs[s.next + 1].symbol_name],
                                 itr_peek(s), dbg)}} : TRUE

RECURSIVE run_alone(_, _, _)
\* TirTrace::new run from locals s to its end with nothing else running.
run_alone(s, reg, dbg) ==
    IF s.outcome # Running THEN s
    ELSE run_alone(iterate(s, reg, dbg), reg, dbg)

\* What work records before its loop, in one iteration of it (through the
\* call of ext, or through the inlined call of f), and after it.
WorkHead == <<SirLoc("main", 0)>>

WorkIteration(kind) ==
    IF kind = "ext"
    THEN <<SirLoc("main", 1), SirLoc("main", 3), SirLoc("main", 5)>>
    ELSE <<SirLoc("main", 1), SirLoc("main", 2), SirLoc("f", 0),
           SirLoc("g", 0), SirLoc("f", 1), SirLoc("f", 2), SirLoc("main", 5)>>

WorkTail == <<SirLoc("main", 1), SirLoc("main", 4), SirLoc("main", 6)>>

RECURSIVE Repeat(_, _)
Repeat(s, n) == IF n = 0 THEN <<>> ELSE s \o Repeat(s, n - 1)

\* The trace of work(n): n iterations between the head and the tail.
Work(n, kind) == WorkHead \o Repeat(WorkIteration(kind), n) \o WorkTail

\* The recorded traces of the threads are known before any of them lowers.
ConcInit ==
    /\ peeked = None
    /\ consumed = <<>>
    /\ callers = <<>>
    /\ ops = <<>>
    /\ rnm = VarRenamer_new
    /\ trace_inputs_local = None
    /\ origin = <<>>
    /\ built = <<>>
    /\ outcome = Running
    /\ debug \in BOOLEAN
    /\ NoInterpreter
    /\ registry = SIR
    /\ read = None
    /\ ser = None
    /\ \E n \in [1..Threads -> 0..MaxWork] :
       \E kind \in [1..Threads -> {"ext", "f"}] :
          sessions = [t \in 1..Threads |-> Session(Work(n[t], kind[t]))]

\* A step of thread t that takes the body it looks up out of the registry.
session_step_takes_body(t) ==
    /\ sessions[t].outcome = Running
    /\ sessions' = [sessions EXCEPT ![t] = iterate(@, registry, debug)]
    /\ registry' =
          IF sessions[t].next < Len(sessions[t].locs)
          THEN [bodies |->
                  [n \in DOMAIN registry.bodies
                            \ {sessions[t].locs[sessions[t].next + 1].symbol_name}
                     |-> registry.bodies[n]]]
          ELSE registry

\* A step of thread t: TirTrace::new reads the registry and writes its own
\* locals.
session_step(t) ==
    /\ sessions[t].outcome = Running
    /\ sessions' = [sessions EXCEPT ![t] = iterate(@, registry, debug)]
    /\ registry' = registry

\* Some thread takes its next step.
SessionStep ==
    /\ \E t \in DOMAIN sessions : session_step(t)
    /\ UNCHANGED <<read, ser>>
    /\ UNCHANGED lvars
    /\ UNCHANGED ivars

ConcNext == SessionStep

ConcSpec == ConcInit /\ [][ConcNext]_vars

----------------------------------------------------------------------------
\* Random access into a recorded trace (hwt/mod.rs lines 13-24).

\* Largest index a caller reads at.
MaxIdx == 26

\* HWTSirTrace::raw_len
raw_len(sirtrace) == Len(sirtrace)

\* raw_loc giving the last location for an index past the end.
raw_loc_clamped(sirtrace, idx) ==
    IF sirtrace = <<>> THEN Panic("index out of bounds")
    ELSE IF idx < Len(sirtrace) THEN Ok(sirtrace[idx + 1], 0)
    ELSE Ok(Last(sirtrace), 0)

\* HWTSirTrace::raw_loc: &self.sirtrace[idx], the index of a Vec.
raw_loc(sirtrace, idx) ==
    IF idx < Len(sirtrace) THEN Ok(sirtrace[idx + 1], 0)
    ELSE Panic("index out of bounds")

\* A thread holds the trace it recorded: that of work, or an empty one (no
\* call of an interp_step, lib.rs lines 162-167).
IndexInit ==
    /\ peeked = None
    /\ consumed = <<>>
    /\ callers = <<>>
    /\ ops = <<>>
    /\ rnm = VarRenamer_new
    /\ trace_inputs_local = None
    /\ origin = <<>>
    /\ built = <<>>
    /\ outcome = Running
    /\ debug = FALSE
    /\ NoInterpreter
    /\ registry = SIR
    /\ read = None
    /\ ser = None
    /\ \E locs \in {<<>>} \cup {Work(n, kind) : n \in 0..MaxWork,
                                                 kind \in {"ext", "f"}} :
          sessions = <<Session(locs)>>

\* &trace[idx] for some index idx.
RawLoc ==
    /\ \E idx \in 0..MaxIdx :
          read' = Some([idx |-> idx, got |-> raw_loc(sessions[1].locs, idx)])
    /\ UNCHANGED <<sessions, registry, ser>>
    /\ UNCHANGED lvars
    /\ UNCHANGED ivars

IndexNext == RawLoc

IndexSpec == IndexInit /\ [][IndexNext]_vars

----------------------------------------------------------------------------
\* The 128-bit wrappers of new_ser128 (types.rs lines 237-269), SerHalf
\* standing for 2^64: a u128 is 0 .. SerHalf^2 - 1, an i128 is
\* -SerHalf^2 / 2 .. SerHalf^2 / 2 - 1.

U128 == 0..(SerHalf * SerHalf - 1)

I128 == (0 - (SerHalf * SerHalf) \div 2)..((SerHalf * SerHalf) \div 2 - 1)

\* x as u64: the low half of the bits of x.
as_u64(x) == x % SerHalf

\* x as i128 for 128 bits x read as a number from 0 on.
as_i128(x) ==
    IF x % (SerHalf * SerHalf) >= (SerHalf * SerHalf) \div 2
    THEN (x % (SerHalf * SerHalf)) - (SerHalf * SerHalf)
    ELSE x % (SerHalf * SerHalf)

\* SerI128::new: hi is (val >> 64) as u64, the shift being arithmetic, and
\* lo is val as u64.
SerI128(v) == [hi |-> as_u64(v \div SerHalf), lo |-> as_u64(v)]

\* SerI128::val leaving the sign bit of hi out.
SerI128_val_unsigned(s) == s.hi * SerHalf + s.lo

\* SerI128::val: (self.hi as i128) << 64 | self.lo as i128.
SerI128_val(s) == as_i128(s.hi * SerHalf + s.lo)

\* SerU128::new(v).val() for some u128 v.
RoundTripU128 ==
    /\ \E v \in U128 :
          ser' = Some([ty |-> "u128", v |-> v, s |-> SerU128(v),
                       got |-> val(SerU128(v))])
    /\ UNCHANGED <<sessions, registry, read>>
    /\ UNCHANGED lvars
    /\ UNCHANGED ivars

\* SerI128::new(v).val() for some i128 v.
RoundTripI128 ==
    /\ \E v \in I128 :
          ser' = Some([ty |-> "i128", v |-> v, s |-> SerI128(v),
                       got |-> SerI128_val(SerI128(v))])
    /\ UNCHANGED <<sessions, registry, read>>
    /\ UNCHANGED lvars
    /\ UNCHANGED ivars

SerInit ==
    /\ peeked = None
    /\ consumed = <<>>
    /\ callers = <<>>
    /\ ops = <<>>
    /\ rnm = VarRenamer_new
    /\ trace_inputs_local = None
    /\ origin = <<>>
    /\ built = <<>>
    /\ outcome = Running
    /\ debug = FALSE
    /\ NoInterpreter
    /\ NoSessions

SerNext == RoundTripU128 \/ RoundTripI128

SerSpec == SerInit /\ [][SerNext]_vars

----------------------------------------------------------------------------
\* SIR as the interpreter reads it (ykbh): places are resolved IPlaces and
\* every body comes with its layout.  Pointers are PtrSize bytes wide, least
\* significant byte first.

\* Bytes a pointer takes, scaled down from 8.
PtrSize == 2

\* Number of values of a byte.
ByteVals == 256

\* Addresses run from 0 to MemTop - 1; no block lies at address 0.
MemTop == 64

Val(l, o, t) == [k |-> "Val", local |-> l, off |-> o, ty |-> t]

Ptr(l, o) == [local |-> l, off |-> o]

Indirect(p, o, t) == [k |-> "Indirect", ptr |-> p, off |-> o, ty |-> t]

Const(v, t) == [k |-> "Const", val |-> v, ty |-> t]

IPlaceUnimplemented(s) == [k |-> "Unimplemented", s |-> s, ty |-> "u8"]

\* Constant::Int(ConstantInt::UnsignedInt(UnsignedInt::U8(v)))
U8(v) == [k |-> "U8", v |-> v]

\* Constant::Tuple(t)
ConstTuple(t) == [k |-> "Tuple", ty |-> t]

Store(d, s) == [k |-> "Store", dest |-> d, src |-> s]

MkRef(d, s) == [k |-> "MkRef", dest |-> d, src |-> s]

StBinaryOp(d, a, b) == [k |-> "BinaryOp", dest |-> d, opnd1 |-> a, opnd2 |-> b]

\* BodyFlags::TRACE_DEBUG
TRACE_DEBUG == "TRACE_DEBUG"

LaidOutBody(name, blocks, flags, decls, layout, offsets) ==
    [symbol_name |-> name, blocks |-> blocks, flags |-> flags,
     local_decls |-> decls, layout |-> layout, offsets |-> offsets]

\* SIR.ty(t).size(): the types of the programs interpreted.
TySize(t) ==
    CASE t = "u8" -> 1
      [] t = "bool" -> 1
      [] t = "ptr" -> PtrSize
      [] t = "pair" -> 2
      [] t = "triple" -> 3
      [] t = "ptrs" -> 2 * PtrSize
      [] t = "unit" -> 0

\* A pointer as the bytes of memory holding it, and back.
PtrBytes(a) == [i \in 1..PtrSize |-> (a \div (ByteVals ^ (i - 1))) % ByteVals]

RECURSIVE PtrOfBytes(_)
PtrOfBytes(b) ==
    IF b = <<>> THEN 0 ELSE b[1] + ByteVals * PtrOfBytes(Tail(b))

\* SIR.ty(t).align()
TyAlign(t) == IF t \in {"ptr", "ptrs"} THEN PtrSize ELSE 1

\* The least multiple of align that is at least n.
PadTo(n, align) == ((n + align - 1) \div align) * align

Max(a, b) == IF a >= b THEN a ELSE b

RECURSIVE offsets_from(_, _, _)
\* The offsets of the locals of types tys from local i on, the locals before
\* it ending at byte end: the locals are laid out as the fields of a struct,
\* in the order they are declared, each at the next address aligned for it.
offsets_from(tys, i, end) ==
    IF i > Len(tys) THEN <<>>
    ELSE <<PadTo(end, TyAlign(tys[i]))>>
         \o offsets_from(tys, i + 1, PadTo(end, TyAlign(tys[i])) + TySize(tys[i]))

RECURSIVE align_from(_, _)
\* The alignment of the frame: the largest of its locals.
align_from(tys, i) ==
    IF i > Len(tys) THEN 1 ELSE Max(TyAlign(tys[i]), align_from(tys, i + 1))

RECURSIVE end_from(_, _, _)
\* The byte the last local ends at.
end_from(tys, i, end) ==
    IF i > Len(tys) THEN end
    ELSE end_from(tys, i + 1, PadTo(end, TyAlign(tys[i])) + TySize(tys[i]))

\* A body as the compiler hands it to the registry: its offset table and its
\* (size, align) are computed once from the declarations of its locals.
Compiled(name, blocks, flags, tys) ==
    LaidOutBody(name, blocks, flags, tys,
                <<PadTo(end_from(tys, 1, 0), align_from(tys, 1)),
                  align_from(tys, 1)>>,
                offsets_from(tys, 1, 0))

\* An access outside every live block: behaviour is undefined.
Undefined(why) == [ok |-> FALSE, msg |-> why, undefined |-> TRUE]

IsUndefined(r) == ~r.ok /\ "undefined" \in DOMAIN r

\* The memory of the caller holding the trace inputs (the struct IO of the
\* tests), and the addresses alloc may return.
IoBase == 4

IoSize == 3

FrameBases == {16, 32, 48}

\* StackFrame: locals is the address alloc returned.
StackFrame(locals, offsets, layout) ==
    [locals |-> locals, offsets |-> offsets, layout |-> layout]

Block(base, size, live) == [base |-> base, size |-> size, live |-> live]

\* The n bytes from address a on lie in the memory of the caller or in one
\* block that is live in heap h.
Accessible(h, a, n) ==
    \/ n = 0
    \/ IoBase <= a /\ a + n <= IoBase + IoSize
    \/ \E i \in DOMAIN h :
          h[i].live /\ h[i].base <= a /\ a + n <= h[i].base + h[i].size

\* write_val copying the first byte only.
write_val_first(m, h, dst, src, size) ==
    IF Accessible(h, dst, size) /\ Accessible(h, src, size)
    THEN Ok([a \in DOMAIN m |->
                IF a = dst /\ size > 0 THEN m[src] ELSE m[a]], 0)
    ELSE Undefined("copy outside live memory")

\* std::ptr::copy of n bytes from src to dst in memory m.
write_val(m, h, dst, src, size) ==
    IF Accessible(h, dst, size) /\ Accessible(h, src, size)
    THEN Ok([a \in DOMAIN m |->
                IF dst <= a /\ a < dst + size THEN m[src + (a - dst)] ELSE m[a]],
            0)
    ELSE Undefined("copy outside live memory")

\* StackFrame::write_const
write_const(m, h, dest, constant) ==
    CASE constant.k = "U8" ->
            IF Accessible(h, dest, 1)
            THEN Ok([m EXCEPT ![dest] = constant.v], 0)
            ELSE Undefined("write outside live memory")
      [] constant.k = "Tuple" ->
            IF TySize(constant.ty) = 0 THEN Ok(m, 0)
            ELSE Panic("not yet implemented")
      [] OTHER -> Panic("not yet implemented")

\* StackFrame::local_ptr
local_ptr(frame, local) ==
    IF local + 1 \in DOMAIN frame.offsets
    THEN Ok(frame.locals + frame.offsets[local + 1], 0)
    ELSE Panic("index out of bounds")

\* std::ptr::read::<*mut u8>(slot)
read_ptr(m, h, slot) ==
    IF Accessible(h, slot, PtrSize)
    THEN Ok(PtrOfBytes([i \in 1..PtrSize |-> m[slot + i - 1]]), 0)
    ELSE Undefined("read outside live memory")

\* write_ptr clearing the byte after the slot as well.
write_ptr_wide(m, h, slot, p) ==
    IF Accessible(h, slot, PtrSize)
    THEN Ok([a \in DOMAIN m |->
                IF slot <= a /\ a < slot + PtrSize
                THEN PtrBytes(p)[a - slot + 1]
                ELSE IF a = slot + PtrSize THEN 0 ELSE m[a]], 0)
    ELSE Undefined("write outside live memory")

\* std::ptr::write::<*mut u8>(slot, p)
write_ptr(m, h, slot, p) ==
    IF Accessible(h, slot, PtrSize)
    THEN Ok([a \in DOMAIN m |->
                IF slot <= a /\ a < slot + PtrSize
                THEN PtrBytes(p)[a - slot + 1] ELSE m[a]], 0)
    ELSE Undefined("write outside live memory")

\* StackFrame::iplace_to_ptr
iplace_to_ptr(frame, place, m, h) ==
    CASE place.k = "Val" ->
            Bind(local_ptr(frame, place.local),
                 LAMBDA dest_ptr, z :
                    IF place.off >= 0 THEN Ok(dest_ptr + place.off, 0)
                    ELSE Panic("unwrap on Err"))
      [] place.k = "Indirect" ->
            Bind(local_ptr(frame, place.ptr.local),
                 LAMBDA dest_ptr, z :
                    Bind(read_ptr(m, h, dest_ptr),
                         LAMBDA p, y : Ok(p + place.ptr.off + place.off, 0)))
      [] OTHER -> Panic("internal error: entered unreachable code")

\* store holding back a write that goes through a pointer.
store_deferred(frame, m, h, dest, src) ==
    IF dest.k = "Indirect" THEN Ok(m, 0)
    ELSE CASE src.k \in {"Val", "Indirect"} ->
                 Bind(iplace_to_ptr(frame, src, m, h),
                      LAMBDA src_ptr, z :
                         Bind(iplace_to_ptr(frame, dest, m, h),
                              LAMBDA dst_ptr, y :
                                 write_val(m, h, dst_ptr, src_ptr,
                                           TySize(src.ty))))
           [] src.k = "Const" ->
                 Bind(iplace_to_ptr(frame, dest, m, h),
                      LAMBDA dst_ptr, y : write_const(m, h, dst_ptr, src.val))
           [] OTHER -> Panic("not yet implemented")

\* StackFrame::store
store(frame, m, h, dest, src) ==
    CASE src.k \in {"Val", "Indirect"} ->
            Bind(iplace_to_ptr(frame, src, m, h),
                 LAMBDA src_ptr, z :
                    Bind(iplace_to_ptr(frame, dest, m, h),
                         LAMBDA dst_ptr, y :
                            write_val(m, h, dst_ptr, src_ptr, TySize(src.ty))))
      [] src.k = "Const" ->
            Bind(iplace_to_ptr(frame, dest, m, h),
                 LAMBDA dst_ptr, y : write_const(m, h, dst_ptr, src.val))
      [] OTHER -> Panic("not yet implemented")

\* SIRInterpreter::mkref
mkref(frame, m, h, dest, src) ==
    IF dest.k \in {"Val", "Indirect"}
    THEN Bind(iplace_to_ptr(frame, src, m, h),
              LAMBDA src_ptr, z :
                 Bind(iplace_to_ptr(frame, dest, m, h),
                      LAMBDA dst_ptr, y : write_ptr(m, h, dst_ptr, src_ptr)))
    ELSE Panic("internal error: entered unreachable code")

\* exec_stmt passing over the statements interpret does not implement.
exec_stmt_lenient(frame, m, h, stmt) ==
    CASE stmt.k = "MkRef" -> mkref(frame, m, h, stmt.dest, stmt.src)
      [] stmt.k = "Store" -> store(frame, m, h, stmt.dest, stmt.src)
      [] OTHER -> Ok(m, 0)

\* The match on one statement in interpret.
exec_stmt(frame, m, h, stmt) ==
    CASE stmt.k = "MkRef" -> mkref(frame, m, h, stmt.dest, stmt.src)
      [] stmt.k = "Store" -> store(frame, m, h, stmt.dest, stmt.src)
      [] stmt.k = "Nop" -> Ok(m, 0)
      [] stmt.k \in {"Call", "StorageDead"} ->
            Panic("internal error: entered unreachable code")
      [] OTHER -> Panic("not yet implemented")

\* Result r of a statement or terminator that found memory m: a panic leaves
\* what was written before it.
At(r, m) ==
    IF r.ok THEN r
    ELSE [x \in DOMAIN r \cup {"mem"} |-> IF x = "mem" THEN m ELSE r[x]]

RECURSIVE exec_stmts(_, _, _, _, _)
\* The loop over the statements of the block, from statement i on.
exec_stmts(frame, m, h, stmts, i) ==
    IF i > Len(stmts) THEN Ok(m, 0)
    ELSE Bind(At(exec_stmt(frame, m, h, stmts[i]), m),
              LAMBDA m2, z : exec_stmts(frame, m2, h, stmts, i + 1))

RECURSIVE copy_args_from(_, _, _, _, _, _)
\* StackFrame::copy_args, from argument i on (0-based): new is the frame of
\* the callee, frame the one of the caller.
copy_args_from(new, args, frame, m, h, i) ==
    IF i + 1 > Len(args) THEN Ok(m, 0)
    ELSE Bind(local_ptr(new, i + 1),
              LAMBDA dst, z :
                 CASE args[i + 1].k \in {"Val", "Indirect"} ->
                         Bind(iplace_to_ptr(frame, args[i + 1], m, h),
                              LAMBDA src, y :
                                 Bind(write_val(m, h, dst, src,
                                                TySize(args[i + 1].ty)),
                                      LAMBDA m2, x :
                                         copy_args_from(new, args, frame, m2,
                                                        h, i + 1)))
                   [] args[i + 1].k = "Const" ->
                         Bind(write_const(m, h, dst, args[i + 1].val),
                              LAMBDA m2, x :
                                 copy_args_from(new, args, frame, m2, h, i + 1))
                   [] OTHER -> Panic("internal error: entered unreachable code"))

\* copy_args stopping after the first argument.
copy_args_first(new, args, frame, m, h) ==
    copy_args_from(new, SubSeq(args, 1, 1), frame, m, h, 0)

copy_args(new, args, frame, m, h) == copy_args_from(new, args, frame, m, h, 0)

----------------------------------------------------------------------------
\* The programs interpreted.  Locals of a body lie at body.offsets in a frame
\* of body.layout = <<size, align>>; local 1 of an entry body holds the
\* pointer to the trace inputs.

\* fn func_call(io: &mut IO) { let a = foo(5, 7); io.0 = a; }
FuncCallBlocks ==
    <<BasicBlock(<<Store(Val(2, 0, "u8"), Const(U8(5), "u8"))>>,
                 TermCall(Fn("foo"),
                          <<Val(2, 0, "u8"), Const(U8(7), "u8")>>,
                          Some(<<Val(3, 1, "u8"), 2>>))),
      BasicBlock(<<>>, Unreachable),
      BasicBlock(<<Store(Indirect(Ptr(1, 0), 0, "u8"), Val(3, 1, "u8"))>>,
                 Return)>>

\* fn foo(i: u8, j: u8) -> u8 { bar(i) }
FooBlocks ==
    <<BasicBlock(<<Nop>>,
                 TermCall(Fn("bar"), <<Val(1, 0, "u8")>>,
                          Some(<<Val(0, 0, "u8"), 1>>))),
      BasicBlock(<<>>, Return)>>

\* fn bar(i: u8) -> u8 { i }
BarBlocks ==
    <<BasicBlock(<<Store(Val(0, 0, "u8"), Val(1, 0, "u8"))>>, Return)>>

\* fn simple(io: &mut IO) { let a = 3; io.1 = a; }
SimpleBlocks ==
    <<BasicBlock(<<Store(Val(2, 0, "u8"), Const(U8(3), "u8")),
                   Store(Indirect(Ptr(1, 0), 1, "u8"), Val(2, 0, "u8"))>>,
                 Return)>>

\* fn func_field(io: &mut IO) { let r = (&a, &b); io.2 = bar(3); (*r.1).0 = 9;
\*                              io.1 = (*r.0).1; }
FuncFieldBlocks ==
    <<BasicBlock(<<MkRef(Val(2, 0, "ptr"), Val(3, 0, "triple")),
                   MkRef(Val(2, PtrSize, "ptr"), Val(4, 0, "pair"))>>,
                 TermCall(Fn("bar"), <<Const(U8(3), "u8")>>,
                          Some(<<Indirect(Ptr(1, 0), 2, "u8"), 1>>))),
      BasicBlock(<<Store(Indirect(Ptr(2, PtrSize), 0, "u8"), Const(U8(9), "u8")),
                   Store(Indirect(Ptr(1, 0), 1, "u8"),
                         Indirect(Ptr(2, 0), 1, "u8"))>>,
                 Return)>>

\* fn func_tuple(io: &mut IO) { let a = io.0; let b = a.2; (io.0).1 = b; }
FuncTupleBlocks ==
    <<BasicBlock(<<Store(Val(2, 0, "triple"), Indirect(Ptr(1, 0), 0, "triple")),
                   Store(Val(3, 0, "u8"), Val(2, 2, "u8")),
                   Store(Indirect(Ptr(1, 0), 1, "u8"), Val(3, 0, "u8"))>>,
                 Return)>>

\* fn func_ref(io: &mut IO) { let a = 5u8; let b = &a; io.1 = *b; }
FuncRefBlocks ==
    <<BasicBlock(<<Store(Val(2, 0, "u8"), Const(U8(5), "u8")),
                   MkRef(Val(3, 0, "ptr"), Val(2, 0, "u8")),
                   Store(Indirect(Ptr(1, 0), 1, "u8"),
                         Indirect(Ptr(3, 0), 0, "u8"))>>,
                 Return)>>

\* fn func_tupleref(io: &mut IO) { let a = io.0; (io.0).1 = 5; let b = &a;
\*                                 (io.0).0 = b.1; }
FuncTuplerefBlocks ==
    <<BasicBlock(<<Store(Val(2, 0, "pair"), Indirect(Ptr(1, 0), 0, "pair")),
                   Store(Indirect(Ptr(1, 0), 1, "u8"), Const(U8(5), "u8")),
                   MkRef(Val(3, 0, "ptr"), Val(2, 0, "pair")),
                   Store(Indirect(Ptr(1, 0), 0, "u8"),
                         Indirect(Ptr(3, 0), 1, "u8"))>>,
                 Return)>>

\* fn func_doubleref(io: &mut IO) { let a = &io.0; (io.0).0 = a.1; }
FuncDoublerefBlocks ==
    <<BasicBlock(<<MkRef(Val(2, 0, "ptr"), Indirect(Ptr(1, 0), 0, "pair")),
                   Store(Indirect(Ptr(1, 0), 0, "u8"),
                         Indirect(Ptr(2, 0), 1, "u8"))>>,
                 Return)>>

\* fn func_twice(io: &mut IO) { let a = bar(1); io.0 = bar(a); }
FuncTwiceBlocks ==
    <<BasicBlock(<<>>, TermCall(Fn("bar"), <<Const(U8(1), "u8")>>,
                                Some(<<Val(2, 0, "u8"), 1>>))),
      BasicBlock(<<>>, TermCall(Fn("bar"), <<Val(2, 0, "u8")>>,
                                Some(<<Indirect(Ptr(1, 0), 0, "u8"), 2>>))),
      BasicBlock(<<Nop>>, Return)>>

\* fn func_unit(io: &mut IO) { set(1); }
FuncUnitBlocks ==
    <<BasicBlock(<<>>, TermCall(Fn("set"), <<Const(U8(1), "u8")>>,
                                Some(<<Val(2, 0, "unit"), 1>>))),
      BasicBlock(<<>>, Return)>>

\* fn set(i: u8) {}
SetBlocks == <<BasicBlock(<<Nop>>, Return)>>

\* fn func_binop(io: &mut IO) { io.2 = 4; io.0 = io.0 + io.1; }
FuncBinopBlocks ==
    <<BasicBlock(<<Store(Val(2, 0, "u8"), Const(U8(4), "u8")),
                   Store(Indirect(Ptr(1, 0), 2, "u8"), Val(2, 0, "u8")),
                   StBinaryOp(Val(2, 0, "u8"), Indirect(Ptr(1, 0), 0, "u8"),
                              Indirect(Ptr(1, 0), 1, "u8")),
                   Store(Indirect(Ptr(1, 0), 0, "u8"), Val(2, 0, "u8"))>>,
                 Return)>>

\* fn func_goto(io: &mut IO) { loop {} }
FuncGotoBlocks == <<BasicBlock(<<Nop>>, Goto(0))>>

\* fn func_indirect(io: &mut IO) { (io.f)(); }
FuncIndirectBlocks ==
    <<BasicBlock(<<>>, TermCall(Unknown, <<>>, Some(<<Val(0, 0, "unit"), 1>>))),
      BasicBlock(<<>>, Return)>>

\* fn func_extern(io: &mut IO) { getpid(); }
FuncExternBlocks ==
    <<BasicBlock(<<>>, TermCall(Fn("getpid"), <<>>,
                                Some(<<Val(2, 0, "u8"), 1>>))),
      BasicBlock(<<>>, Return)>>

\* fn func_diverge(io: &mut IO) { never(1) }
FuncDivergeBlocks ==
    <<BasicBlock(<<>>, TermCall(Fn("never"), <<Const(U8(1), "u8")>>, None))>>

\* fn never(i: u8) -> ! { unreachable }
NeverBlocks == <<BasicBlock(<<Nop>>, Unreachable)>>

\* A body whose only block calls back without a destination.
FuncReenterBlocks ==
    <<BasicBlock(<<Store(Indirect(Ptr(1, 0), 0, "u8"), Const(U8(7), "u8"))>>,
                 TermCall(Fn("back"), <<>>, None))>>

\* fn back() {}
BackBlocks == <<BasicBlock(<<>>, Return)>>

\* SIR.body: the bodies by symbol name.
InterpBodies ==
    {Compiled("func_call", FuncCallBlocks, {}, <<"unit", "ptr", "u8", "pair">>),
     Compiled("foo", FooBlocks, {}, <<"u8", "u8", "u8">>),
     Compiled("bar", BarBlocks, {}, <<"u8", "u8">>),
     Compiled("set", SetBlocks, {}, <<"unit", "u8">>),
     Compiled("simple", SimpleBlocks, {}, <<"unit", "ptr", "u8">>),
     Compiled("func_tuple", FuncTupleBlocks, {},
              <<"unit", "ptr", "triple", "u8">>),
     Compiled("func_ref", FuncRefBlocks, {}, <<"unit", "ptr", "u8", "ptr">>),
     Compiled("func_tupleref", FuncTuplerefBlocks, {},
              <<"unit", "ptr", "pair", "ptr">>),
     Compiled("func_doubleref", FuncDoublerefBlocks, {},
              <<"unit", "ptr", "ptr">>),
     Compiled("func_field", FuncFieldBlocks, {},
              <<"unit", "ptr", "ptrs", "triple", "pair">>),
     Compiled("func_twice", FuncTwiceBlocks, {}, <<"unit", "ptr", "u8">>),
     Compiled("func_unit", FuncUnitBlocks, {}, <<"unit", "ptr", "unit">>),
     Compiled("func_binop", FuncBinopBlocks, {}, <<"unit", "ptr", "u8">>),
     Compiled("func_goto", FuncGotoBlocks, {}, <<"unit", "ptr">>),
     Compiled("func_indirect", FuncIndirectBlocks, {}, <<"unit", "ptr">>),
     Compiled("func_extern", FuncExternBlocks, {}, <<"unit", "ptr", "u8">>),
     Compiled("func_diverge", FuncDivergeBlocks, {}, <<"unit", "ptr">>),
     Compiled("never", NeverBlocks, {}, <<"unit", "u8">>),
     Compiled("func_reenter", FuncReenterBlocks, {}, <<"unit", "ptr">>),
     Compiled("back", BackBlocks, {}, <<"unit", "u8">>),
     Compiled("trace_debug", FuncGotoBlocks, {TRACE_DEBUG},
              <<"unit", "ptr", "triple", "triple">>)}

\* SIR.body(name): Some(body) or None.
sir_body(name) ==
    IF \E b \in InterpBodies : b.symbol_name = name
    THEN Some(CHOOSE b \in InterpBodies : b.symbol_name = name)
    ELSE None

\* The bodies a caller hands to SIRInterpreter::new and interpret.
EntryBodies ==
    {"func_call", "simple", "func_tuple", "func_ref", "func_tupleref",
     "func_doubleref", "func_field", "func_twice", "func_unit", "func_binop",
     "func_goto", "func_indirect", "func_extern", "func_diverge",
     "func_reenter", "trace_debug"}

\* The bytes a caller keeps in the trace inputs.
TraceInputs == {<<0, 0, 0>>, <<1, 2, 3>>}

\* The bytes found in memory alloc hands out.
FreshBytes == {0, 255}

\* Layout::from_size_align(size, align) is Ok.
ValidLayout(layout) == layout[2] \in {1, 2, 4, 8, 16}

\* The addresses alloc can return for layout in heap h.
FreeBases(h, layout) ==
    {b \in FrameBases :
        /\ b % layout[2] = 0
        /\ b + layout[1] <= MemTop
        /\ \A i \in DOMAIN h :
              h[i].live => \/ b + layout[1] <= h[i].base
                           \/ h[i].base + h[i].size <= b}

\* The heap once alloc has handed out block blk: a freed block of the same
\* address and size is the same block handed out again, any other block is
\* new.
handed_out(h, blk) ==
    IF \E k \in DOMAIN h : h[k] = Block(blk.base, blk.size, FALSE)
    THEN [k \in DOMAIN h |->
            IF h[k] = Block(blk.base, blk.size, FALSE) THEN blk ELSE h[k]]
    ELSE Append(h, blk)

\* create_frame allocating one byte less than the layout asks for.
create_frame_short(body, m, h, b, g) ==
    IF ~ValidLayout(body.layout) THEN Panic("unwrap on Err")
    ELSE IF body.layout[1] <= 1 THEN Undefined("alloc of size 0")
    ELSE Ok([frame |-> StackFrame(b, body.offsets,
                                  <<body.layout[1] - 1, body.layout[2]>>),
             mem |-> [a \in DOMAIN m |->
                        IF b <= a /\ a < b + body.layout[1] - 1 THEN g
                        ELSE m[a]],
             heap |-> handed_out(h, Block(b, body.layout[1] - 1,
                                          TRUE))],
            0)

\* SIRInterpreter::create_frame, alloc returning address b of memory that
\* holds byte g everywhere: the frame, with the memory and the heap after.
create_frame(body, m, h, b, g) ==
    IF ~ValidLayout(body.layout) THEN Panic("unwrap on Err")
    ELSE IF body.layout[1] = 0 THEN Undefined("alloc of size 0")
    ELSE Ok([frame |-> StackFrame(b, body.offsets, body.layout),
             mem |-> [a \in DOMAIN m |->
                        IF b <= a /\ a < b + body.layout[1] THEN g ELSE m[a]],
             heap |-> handed_out(h, Block(b, body.layout[1], TRUE))],
            0)

\* Drop for StackFrame: dealloc(self.locals, self.layout).
drop_frame(h, frame) ==
    [i \in DOMAIN h |->
        IF h[i].live /\ h[i].base = frame.locals
        THEN Block(h[i].base, h[i].size, FALSE) ELSE h[i]]

Status(k, msg) == [k |-> k, msg |-> msg]

\* How a panic or an undefined access ends the run.
Aborted(r) == Status(IF IsUndefined(r) THEN "Undefined" ELSE "Panicked", r.msg)

----------------------------------------------------------------------------
\* The interpreter as a state machine: SIRInterpreter::new, set_trace_inputs,
\* interpret, and then one action for every iteration of the loop of
\* interpret, by the terminator of the block it runs.

\* SIRInterpreter::new(body) once create_frame gave r (lib.rs lines 134-140).
Constructed(r) ==
    IF r.ok
    THEN /\ frames' = <<r.val.frame>>
         /\ bbidx' = 0
         /\ mem' = r.val.mem
         /\ heap' = r.val.heap
         /\ status' = Status("New", "")
    ELSE /\ status' = Aborted(r)
         /\ UNCHANGED <<frames, bbidx, mem, heap>>

New ==
    /\ status.k = "None"
    /\ \E name \in EntryBodies, g \in FreshBytes :
        \E b \in FreeBases(heap, sir_body(name)[1].layout) :
            Constructed(create_frame(sir_body(name)[1], mem, heap, b, g))
    /\ UNCHANGED <<bodies, returns>>
    /\ UNCHANGED lvars
    /\ UNCHANGED cvars

\* set_trace_inputs(tio) once the pointer write gave r.
InputsSet(r) ==
    IF r.ok
    THEN /\ mem' = r.val
         /\ status' = Status("Ready", "")
    ELSE /\ status' = Aborted(r)
         /\ UNCHANGED mem

\* SIRInterpreter::set_trace_inputs (lib.rs lines 168-176), tio being the
\* address of the trace inputs of the caller.
SetTraceInputs ==
    /\ status.k = "New"
    /\ InputsSet(Bind(local_ptr(Last(frames), 1),
                      LAMBDA ptr, z : write_ptr(mem, heap, ptr, IoBase)))
    /\ UNCHANGED <<frames, bbidx, bodies, returns, heap>>
    /\ UNCHANGED lvars
    /\ UNCHANGED cvars

\* Interpret running the body whatever its flags.
InterpretFlagged ==
    /\ status.k = "Ready"
    /\ \E name \in EntryBodies :
        /\ sir_body(name)[1].layout = Last(frames).layout
        /\ sir_body(name)[1].offsets = Last(frames).offsets
        /\ status' = Status("Running", "")
        /\ bodies' = <<name>>
        /\ returns' = <<>>
    /\ UNCHANGED <<frames, bbidx, mem, heap>>
    /\ UNCHANGED lvars
    /\ UNCHANGED cvars

\* The start of interpret(body) (lib.rs lines 178-185): the caller hands in
\* the body the interpreter was constructed with.
Interpret ==
    /\ status.k = "Ready"
    /\ \E name \in EntryBodies :
        /\ sir_body(name)[1].layout = Last(frames).layout
        /\ sir_body(name)[1].offsets = Last(frames).offsets
        /\ IF TRACE_DEBUG \in sir_body(name)[1].flags
           THEN /\ status' = Status("Returned", "")
                /\ UNCHANGED <<bodies, returns>>
           ELSE /\ status' = Status("Running", "")
                /\ bodies' = <<name>>
                /\ returns' = <<>>
    /\ UNCHANGED <<frames, bbidx, mem, heap>>
    /\ UNCHANGED lvars
    /\ UNCHANGED cvars

\* The body interpret was called with, whatever was called since.
OutermostBody == sir_body(bodies[1])[1]

\* bodies.last() and its block bbidx.
CurrentBody == sir_body(Last(bodies))[1]

HasBlock == bbidx + 1 \in DOMAIN CurrentBody.blocks

CurrentBlock == CurrentBody.blocks[bbidx + 1]

\* The statements of the current block, run in the top frame.
RunStmts == exec_stmts(Last(frames), mem, heap, CurrentBlock.stmts, 1)

\* Terminator::Call after the statements left memory m (lib.rs lines
\* 204-223), alloc returning b for the frame of the callee.
call(term, m, b, g) ==
    IF term.operand.k # "Fn" THEN Panic("not yet implemented: unknown call target")
    ELSE IF sir_body(term.operand.sym) = None THEN Panic("unwrap on None")
    ELSE Bind(create_frame(sir_body(term.operand.sym)[1], m, heap, b, g),
              LAMBDA c, z :
                 Bind(copy_args(c.frame, term.args, Last(frames), c.mem, c.heap),
                      LAMBDA m2, y :
                         Ok([frames |-> Append(frames, c.frame),
                             bbidx |-> 0,
                             returns |-> Append(returns,
                                 IF term.destination = None THEN None
                                 ELSE Some(term.destination[1])),
                             bodies |-> Append(bodies, term.operand.sym),
                             mem |-> m2,
                             heap |-> c.heap], 0)))

\* return_to_caller looking for the destination in the frame that returns.
return_within_callee(v, m) ==
    LET oldframe == Last(frames)
        left == [frames |-> Front(frames),
                 returns |-> Front(returns),
                 bodies |-> Front(bodies),
                 heap |-> drop_frame(heap, oldframe)]
    IN  IF v = None
        THEN Ok(left @@ [bbidx |-> bbidx, mem |-> m], 0)
        ELSE Bind(local_ptr(oldframe, 0),
                  LAMBDA ret_ptr, z :
                     Bind(iplace_to_ptr(oldframe, v[1][1], m, heap),
                          LAMBDA dst_ptr, y :
                             Bind(write_val(m, heap, dst_ptr, ret_ptr,
                                            TySize(v[1][1].ty)),
                                  LAMBDA m2, x :
                                     Ok(left @@ [bbidx |-> v[1][2],
                                                 mem |-> m2], 0))))

\* return_to_caller leaving bbidx where the callee returned.
return_keeps_bbidx(v, m) ==
    LET oldframe == Last(frames)
        rest == Front(frames)
        left == [frames |-> rest,
                 returns |-> Front(returns),
                 bodies |-> Front(bodies),
                 bbidx |-> bbidx,
                 heap |-> drop_frame(heap, oldframe)]
    IN  IF v = None
        THEN Ok(left @@ [mem |-> m], 0)
        ELSE Bind(local_ptr(oldframe, 0),
                  LAMBDA ret_ptr, z :
                     IF rest = <<>> THEN Panic("unwrap on None")
                     ELSE Bind(iplace_to_ptr(Last(rest), v[1][1], m, heap),
                               LAMBDA dst_ptr, y :
                                  Bind(write_val(m, heap, dst_ptr, ret_ptr,
                                                 TySize(v[1][1].ty)),
                                       LAMBDA m2, x :
                                          Ok(left @@ [mem |-> m2], 0))))

\* return_to_caller freeing the frame of the callee before the copy.
return_frees_first(v, m) ==
    LET oldframe == Last(frames)
        rest == Front(frames)
        left == [frames |-> rest,
                 returns |-> Front(returns),
                 bodies |-> Front(bodies),
                 heap |-> drop_frame(heap, oldframe)]
    IN  IF v = None
        THEN Ok(left @@ [bbidx |-> bbidx, mem |-> m], 0)
        ELSE Bind(local_ptr(oldframe, 0),
                  LAMBDA ret_ptr, z :
                     IF rest = <<>> THEN Panic("unwrap on None")
                     ELSE Bind(iplace_to_ptr(Last(rest), v[1][1], m, left.heap),
                               LAMBDA dst_ptr, y :
                                  Bind(write_val(m, left.heap, dst_ptr, ret_ptr,
                                                 TySize(v[1][1].ty)),
                                       LAMBDA m2, x :
                                          Ok(left @@ [bbidx |-> v[1][2],
                                                      mem |-> m2], 0))))

\* Terminator::Return with a call outstanding, after the statements left
\* memory m (lib.rs lines 224-241): v is what returns.pop() gave.
return_to_caller(v, m) ==
    LET oldframe == Last(frames)
        rest == Front(frames)
        left == [frames |-> rest,
                 returns |-> Front(returns),
                 bodies |-> Front(bodies),
                 heap |-> drop_frame(heap, oldframe)]
    IN  IF v = None
        THEN Ok(left @@ [bbidx |-> bbidx, mem |-> m], 0)
        ELSE Bind(local_ptr(oldframe, 0),
                  LAMBDA ret_ptr, z :
                     IF rest = <<>> THEN Panic("unwrap on None")
                     ELSE Bind(iplace_to_ptr(Last(rest), v[1][1], m, heap),
                               LAMBDA dst_ptr, y :
                                  Bind(write_val(m, heap, dst_ptr, ret_ptr,
                                                 TySize(v[1][1].ty)),
                                       LAMBDA m2, x :
                                          Ok(left @@ [bbidx |-> v[1][2],
                                                      mem |-> m2], 0))))

\* The state after an iteration whose terminator gave r.
Stepped(r) ==
    IF r.ok
    THEN /\ frames' = r.val.frames
         /\ bbidx' = r.val.bbidx
         /\ bodies' = r.val.bodies
         /\ returns' = r.val.returns
         /\ mem' = r.val.mem
         /\ heap' = r.val.heap
         /\ UNCHANGED status
    ELSE /\ status' = Aborted(r)
         /\ mem' = r.mem
         /\ UNCHANGED <<frames, bbidx, bodies, returns, heap>>

\* An iteration on a block that ends in a Call.
CallStep ==
    /\ status.k = "Running"
    /\ HasBlock
    /\ CurrentBlock.term.k = "Call"
    /\ \E g \in FreshBytes :
        IF /\ CurrentBlock.term.operand.k = "Fn"
           /\ sir_body(CurrentBlock.term.operand.sym) # None
        THEN \E b \in FreeBases(heap,
                        sir_body(CurrentBlock.term.operand.sym)[1].layout) :
             \E r \in {Bind(RunStmts,
                            LAMBDA m, z :
                               At(call(CurrentBlock.term, m, b, g), m))} :
                Stepped(r)
        ELSE \E r \in {Bind(RunStmts,
                            LAMBDA m, z :
                               At(call(CurrentBlock.term, m, 0, g), m))} :
                Stepped(r)
    /\ UNCHANGED lvars
    /\ UNCHANGED cvars

\* An iteration on a block that ends in Return while a call is outstanding.
ReturnStep ==
    /\ status.k = "Running"
    /\ HasBlock
    /\ CurrentBlock.term.k = "Return"
    /\ returns # <<>>
    /\ \E r \in {Bind(RunStmts,
                       LAMBDA m, z :
                          At(return_to_caller(Last(returns), m), m))} :
          Stepped(r)
    /\ UNCHANGED lvars
    /\ UNCHANGED cvars

\* The end of interpret once the statements of the last block gave r.
Finished(r) ==
    IF r.ok
    THEN /\ mem' = r.val
         /\ status' = Status("Returned", "")
    ELSE /\ status' = Aborted(r)
         /\ mem' = r.mem

\* An iteration on a block that ends in Return in the first body: break.
FinishStep ==
    /\ status.k = "Running"
    /\ HasBlock
    /\ CurrentBlock.term.k = "Return"
    /\ returns = <<>>
    /\ \E r \in {RunStmts} : Finished(r)
    /\ UNCHANGED <<frames, bbidx, bodies, returns, heap>>
    /\ UNCHANGED lvars
    /\ UNCHANGED cvars

\* An iteration that panics: no block bbidx, or a terminator that interpret
\* does not implement (lib.rs lines 187-188 and 245).
unsupported(m) == Panic("not yet implemented")

\* The state a panic with result r leaves.
Halted(r) ==
    /\ status' = Aborted(r)
    /\ mem' = r.mem

PanicStep ==
    /\ status.k = "Running"
    /\ IF ~HasBlock
       THEN /\ status' = Status("Panicked", "index out of bounds")
            /\ UNCHANGED mem
       ELSE /\ CurrentBlock.term.k \notin {"Call", "Return"}
            /\ \E r \in {Bind(RunStmts,
                               LAMBDA m, z : At(unsupported(m), m))} :
                  Halted(r)
    /\ UNCHANGED <<frames, bbidx, bodies, returns, heap>>
    /\ UNCHANGED lvars
    /\ UNCHANGED cvars

\* Before SIRInterpreter::new: no trace is being lowered, the caller holds
\* its trace inputs, everything else in memory is zero.
InterpInit ==
    /\ peeked = None
    /\ consumed = <<>>
    /\ callers = <<>>
    /\ ops = <<>>
    /\ rnm = VarRenamer_new
    /\ trace_inputs_local = None
    /\ origin = <<>>
    /\ built = <<>>
    /\ outcome = Running
    /\ debug = FALSE
    /\ frames = <<>>
    /\ bbidx = 0
    /\ bodies = <<>>
    /\ returns = <<>>
    /\ heap = <<>>
    /\ status = Status("None", "")
    /\ NoSessions
    /\ \E io \in TraceInputs :
          mem = [a \in 0..(MemTop - 1) |->
                    IF IoBase <= a /\ a < IoBase + IoSize
                    THEN io[a - IoBase + 1] ELSE 0]

InterpNext ==
    New \/ SetTraceInputs \/ Interpret \/ CallStep \/ ReturnStep
        \/ FinishStep \/ PanicStep

InterpSpec == InterpInit /\ [][InterpNext]_vars

\* An iteration of the loop of interpret (lib.rs lines 186-246).
Iterate == CallStep \/ ReturnStep \/ FinishStep \/ PanicStep

\* The loop of interpret is sequential code: while interpret has neither
\* returned nor panicked it keeps taking iterations, which is weak fairness
\* of the iterations.  The caller is free to stop before it calls interpret.
InterpLiveSpec ==
    /\ InterpInit
    /\ [][InterpNext]_vars
    /\ WF_vars(Iterate)

----------------------------------------------------------------------------
\* Reading a run: the ops built, the blocks lowered, the open frames.

\* Every op the loop has pushed, trimmed later or not; origin runs parallel.
AllOps == IF outcome.k = "Returned" /\ outcome.res.k = "Ok" THEN built ELSE ops

HasSir(sym) == sym \in DOMAIN SIR.bodies

\* How many locations of the trace the loop has lowered completely.
NumLowered ==
    IF (outcome.k = "Panicked" /\ outcome.at = "loop")
       \/ (outcome.k = "Returned" /\ outcome.res.k = "Err")
    THEN Len(consumed) - 1
    ELSE Len(consumed)

Delivered == outcome.k = "Returned" /\ outcome.res.k = "Ok"

\* The block and terminator of the n-th location of the trace.
BlockAt(n) == BlockOf(consumed[n])

TermAt(n) == BlockAt(n).term

\* The indices of the ops pushed for part pt of the n-th location.
OpsFrom(n, pt) == {i \in DOMAIN origin : origin[i].n = n /\ origin[i].part = pt}

IsEnter(o) == o.op = "Statement" /\ o.stmt.k = "Enter"

IsLeave(o) == o.op = "Statement" /\ o.stmt.k = "Leave"

RECURSIVE EnclosingFrom(_, _, _)
\* Scanning o downwards from index j with d Leave ops still to match: the
\* index of the innermost Enter op not yet left, or 0 in the outermost body.
EnclosingFrom(o, j, d) ==
    IF j = 0 THEN 0
    ELSE IF IsLeave(o[j]) THEN EnclosingFrom(o, j - 1, d + 1)
    ELSE IF IsEnter(o[j])
         THEN IF d = 0 THEN j ELSE EnclosingFrom(o, j - 1, d - 1)
    ELSE EnclosingFrom(o, j - 1, d)

\* The frame op i of o lies in: the Enter op of the innermost inlined call
\* open when op i was pushed, or 0.  For a Leave op it is the matching Enter.
Enclosing(o, i) == EnclosingFrom(o, i - 1, 0)

\* The frames open after all ops of o: 0 and every Enter not yet left.
RECURSIVE OpenFrom(_, _)
OpenFrom(o, j) == IF j = 0 THEN {0} ELSE {j} \cup OpenFrom(o, Enclosing(o, j))

OpenFrames(o) == OpenFrom(o, Enclosing(o, Len(o) + 1))

\* The offset and the destination place of frame j (an Enter op, or 0).
FrameOff(o, j) == IF j = 0 THEN 0 ELSE o[j].stmt.off

FrameDest(o, j) == IF j = 0 THEN None ELSE o[j].stmt.dest

\* The statement op i was pushed for.
SourceStmt(i) == BlockAt(origin[i].n).stmts[origin[i].i]

\* What renaming is to make of a place, an operand, an rvalue and a statement
\* of a frame whose offset is k and whose destination in the caller is d.
RenamedPlace(p, k, d) ==
    IF p.local = 0 THEN d[1] ELSE Place(p.local + k, p.projection)

RenamedOperand(x, k, d) ==
    IF x.k = "Place" THEN OpPlace(RenamedPlace(x.place, k, d)) ELSE x

RenamedArgs(args, k, d) ==
    [a \in 1..Len(args) |-> RenamedOperand(args[a], k, d)]

RenamedRvalue(rv, k, d) ==
    CASE rv.k = "Use" -> Use(RenamedOperand(rv.op, k, d))
      [] rv.k = "BinaryOp" ->
            BinaryOp(rv.binop, RenamedOperand(rv.op1, k, d),
                     RenamedOperand(rv.op2, k, d))
      [] rv.k = "CheckedBinaryOp" ->
            CheckedBinaryOp(rv.binop, RenamedOperand(rv.op1, k, d),
                            RenamedOperand(rv.op2, k, d))
      [] rv.k = "Ref" -> Ref(RenamedPlace(rv.place, k, d))
      [] OTHER -> rv

RenamedStmt(st, k, d) ==
    CASE st.k = "StorageLive" -> StorageLive(st.local + k)
      [] st.k = "StorageDead" -> StorageDead(st.local + k)
      [] st.k = "Assign" ->
            Assign(RenamedPlace(st.place, k, d), RenamedRvalue(st.rvalue, k, d))
      [] OTHER -> st

\* The n-th location ends in a call of a named symbol that has SIR.
CallsKnown(n) ==
    /\ TermAt(n).k = "Call"
    /\ symbol(TermAt(n).operand) # None
    /\ HasSir(symbol(TermAt(n).operand)[1])

----------------------------------------------------------------------------
\* C1: as soon as the trace reaches a location whose symbol has no body in
\* the registry, TirTrace::new returns Err(NoSir(s)) with s the symbol of
\* that location, the first such one, and delivers no trace; every error it
\* returns is such a NoSir.
NoSirIsTheOnlyError ==
    /\ \A n \in DOMAIN consumed :
          ~HasSir(consumed[n].symbol_name)
          => /\ n = Len(consumed)
             /\ outcome = [k |-> "Returned",
                           res |-> [k |-> "Err",
                                    err |-> [k |-> "NoSir",
                                             symbol_name |->
                                                 consumed[n].symbol_name]]]
    /\ (outcome.k = "Returned" /\ outcome.res.k = "Err")
          => /\ outcome.res.err.k = "NoSir"
             /\ consumed # <<>>
             /\ ~HasSir(Last(consumed).symbol_name)
             /\ \A n \in 1..(Len(consumed) - 1) : HasSir(consumed[n].symbol_name)

\* NoSir is returned after blocks, a native call among them, were lowered.
NoSirAfterLowering ==
    /\ outcome.k = "Returned" /\ outcome.res.k = "Err"
    /\ outcome.res.err = [k |-> "NoSir", symbol_name |-> "ext"]
    /\ Len(consumed) >= 3
    /\ \E i \in DOMAIN ops : ops[i].op = "Statement" /\ ops[i].stmt.k = "Call"

\* C2: a lowered block ending in a call of a named symbol with SIR yields
\* exactly one op for its terminator, an Enter and no Call; the Enter carries
\* the call operand, the arguments and the destination renamed in the frame of
\* the caller, and its offset field is a new offset, the one under which every
\* op of the callee between this Enter and its Leave was renamed.
EnterForKnownCallee ==
    \A n \in 1..NumLowered :
        CallsKnown(n) =>
            /\ Cardinality(OpsFrom(n, "term")) = 1
            /\ \A i \in OpsFrom(n, "term") :
                  /\ IsEnter(AllOps[i])
                  /\ AllOps[i].stmt.operand = TermAt(n).operand
                  /\ AllOps[i].stmt.args =
                        RenamedArgs(TermAt(n).args,
                                    FrameOff(AllOps, Enclosing(AllOps, i)),
                                    FrameDest(AllOps, Enclosing(AllOps, i)))
                  /\ AllOps[i].stmt.dest =
                        Some(RenamedPlace(TermAt(n).destination[1][1],
                                          FrameOff(AllOps, Enclosing(AllOps, i)),
                                          FrameDest(AllOps, Enclosing(AllOps, i))))
                  /\ origin[i].off = FrameOff(AllOps, Enclosing(AllOps, i))
                  /\ AllOps[i].stmt.off > origin[i].off
                  /\ \A j \in DOMAIN AllOps :
                        Enclosing(AllOps, j) = i =>
                            /\ origin[j].off = AllOps[i].stmt.off
                            /\ origin[j].part = "stmt" =>
                                  AllOps[j] =
                                    TirStatement(RenamedStmt(SourceStmt(j),
                                                             AllOps[i].stmt.off,
                                                             AllOps[i].stmt.dest))
            /\ OpsFrom(n, "guard") = {}

\* A call made inside an inlined callee was itself inlined and left, and a
\* statement of the outer callee was lowered after it.
NestedEnterLowered ==
    \E i, i2, j \in DOMAIN AllOps :
        /\ IsEnter(AllOps[i]) /\ IsEnter(AllOps[i2])
        /\ Enclosing(AllOps, i2) = i
        /\ i2 < j
        /\ Enclosing(AllOps, j) = i
        /\ origin[j].part = "stmt"
        /\ AllOps[j].stmt.k = "Assign"

\* The block at loc ends in a call whose callee has no body in the registry:
\* a named symbol without SIR, or an unknown call target.
CallsNative(loc) ==
    /\ BlockOf(loc).term.k = "Call"
    /\ \/ symbol(BlockOf(loc).term.operand) = None
       \/ ~HasSir(symbol(BlockOf(loc).term.operand)[1])

\* The destination of the frame being lowered, as rnm has it.
CurrentDest == IF rnm.returns = <<>> THEN None ELSE Some(Last(rnm.returns))

\* The step lowers the block at loc to its statements and one Call statement
\* with renamed arguments and destination, and keeps the renaming state.
NativeCallEmitted(loc) ==
    /\ outcome' = Running
    /\ Len(ops') = Len(ops) + Len(BlockOf(loc).stmts) + 1
    /\ Last(ops') =
          TirStatement(Call(BlockOf(loc).term.operand,
                            RenamedArgs(BlockOf(loc).term.args, rnm.offset,
                                        CurrentDest),
                            Some(RenamedPlace(BlockOf(loc).term.destination[1][1],
                                              rnm.offset, CurrentDest))))
    /\ \A i \in (Len(ops) + 1)..Len(ops') : ~IsEnter(ops'[i])
    /\ rnm'.offset = rnm.offset
    /\ rnm'.stack = rnm.stack
    /\ rnm'.returns = rnm.returns
    /\ rnm'.acc = init_acc(rnm, Len(SIR.bodies[loc.symbol_name].local_decls)).acc

\* C3: lowering a block whose Call terminator targets a callee with no body
\* in the registry, a named symbol without SIR or an unknown call target,
\* emits one Call statement with renamed arguments and destination, emits no
\* Enter, and leaves offset, offset stack, accumulator and destination stack
\* as they were.
CallForCalleeWithoutBody ==
    [][(/\ outcome = Running
        /\ peeked # None
        /\ HasSir(peeked[1].symbol_name)
        /\ CallsNative(peeked[1]))
       => NativeCallEmitted(peeked[1])]_vars

\* How the locals of a source place, operand, rvalue and statement were
\* renamed in the op emitted for it: triples of the local in the body, the
\* local in the op, and whether it stands in a storage marker or in a place.
PlacePairs(src, out) == {<<src.local, out.local, "place">>}

OperandPairs(src, out) ==
    IF src.k = "Place" THEN PlacePairs(src.place, out.place) ELSE {}

RvaluePairs(src, out) ==
    CASE src.k = "Use" -> OperandPairs(src.op, out.op)
      [] src.k \in {"BinaryOp", "CheckedBinaryOp"} ->
            OperandPairs(src.op1, out.op1) \cup OperandPairs(src.op2, out.op2)
      [] src.k = "Ref" -> PlacePairs(src.place, out.place)
      [] OTHER -> {}

StmtPairs(src, out) ==
    CASE src.k \in {"StorageLive", "StorageDead"} ->
            {<<src.local, out.local, "marker">>}
      [] src.k = "Assign" ->
            PlacePairs(src.place, out.place)
            \cup RvaluePairs(src.rvalue, out.rvalue)
      [] OTHER -> {}

CallPairs(term, out) ==
    PlacePairs(term.destination[1][1], out.dest[1])
    \cup UNION {OperandPairs(term.args[a], out.args[a]) : a \in DOMAIN term.args}

\* The renamings op j of the run shows.
OpPairs(j) ==
    CASE origin[j].part = "stmt" -> StmtPairs(SourceStmt(j), AllOps[j].stmt)
      [] origin[j].part = "term" /\ ~IsLeave(AllOps[j]) ->
            CallPairs(TermAt(origin[j].n), AllOps[j].stmt)
      [] OTHER -> {}

\* The renamings of the locals of frame i: those of the ops lowered in it,
\* the Enter and Call ops of the calls it makes included.
FramePairs(i) ==
    UNION {OpPairs(j) : j \in {x \in DOMAIN AllOps :
                                  ~IsLeave(AllOps[x]) /\ Enclosing(AllOps, x) = i}}

\* The renamings rename_local made, by adding the offset: every storage marker
\* and every place but one on local 0.
OffsetPairs(i) == {p \in FramePairs(i) : p[3] = "marker" \/ p[1] # 0}

\* The number of locals of the body lowered in frame i.
FrameLocals(i) ==
    IF i = 0 THEN Len(SIR.bodies[consumed[1].symbol_name].local_decls)
    ELSE Len(SIR.bodies[AllOps[i].stmt.operand.sym].local_decls)

RECURSIVE AccBefore(_)
\* The accumulator when op i was pushed: the locals of the outermost body and
\* of every callee entered before.
AccBefore(i) ==
    IF i <= 1 THEN FrameLocals(0)
    ELSE AccBefore(i - 1)
         + (IF IsEnter(AllOps[i - 1]) THEN FrameLocals(i - 1) ELSE 0)

\* The frames of the run, and the frames open while frame b is: the frames
\* b is nested in.
Frames == {0} \cup {i \in DOMAIN AllOps : IsEnter(AllOps[i])}

OpenWith(b) == OpenFrom(AllOps, b) \ {b}

\* C4 as stated: for any two frames open together no local of one is renamed
\* to the index a local of the other is renamed to, and the renamed indices
\* of an inlined frame lie in [k, k + callee local count), k the accumulator
\* at its Enter.
RenamingInjectiveForEveryLocal ==
    /\ \A b \in Frames : \A a \in OpenWith(b) :
          \A pa \in FramePairs(a), pb \in FramePairs(b) : pa[2] # pb[2]
    /\ \A b \in Frames \ {0} :
          \A pb \in FramePairs(b) :
              pb[2] \in AccBefore(b)..(AccBefore(b) + FrameLocals(b) - 1)

\* C4: for any two frames open together no local of one renamed by offset
\* gets the index of a local of the other renamed by offset; the indices so
\* given in an inlined frame are local + k inside [k, k + callee local count),
\* k the accumulator at its Enter, and in the outermost frame the locals keep
\* their indices.  A place on local 0 of an inlined frame is not renamed by
\* offset: it becomes the destination place of the call, in an outer frame.
RenamingInjectiveByOffset ==
    /\ \A b \in Frames : \A a \in OpenWith(b) :
          \A pa \in OffsetPairs(a), pb \in OffsetPairs(b) : pa[2] # pb[2]
    /\ \A b \in Frames :
          \A pb \in OffsetPairs(b) :
              /\ pb[1] \in 0..(FrameLocals(b) - 1)
              /\ pb[2] = pb[1] + (IF b = 0 THEN 0 ELSE AccBefore(b))

\* Two inlined frames, one inside the other, both with locals renamed by
\* offset, the inner one assigning through its local 0, after a first
\* inlined call was left.
NestedFramesRenamed ==
    \E b \in Frames \ {0} :
        /\ Enclosing(AllOps, b) # 0
        /\ OffsetPairs(Enclosing(AllOps, b)) # {}
        /\ OffsetPairs(b) # {}
        /\ \E p \in FramePairs(b) : p[1] = 0 /\ p[3] = "place"
        /\ \E l \in 1..(b - 1) : IsLeave(AllOps[l])

\* C5: inside an inlined callee every reference to local 0, in a place of an
\* assignment, of a call argument or of a call destination and in a storage
\* marker alike, is, in the op emitted, the destination place recorded at the
\* enclosing Enter, and never the local 0 + offset.
LocalZeroIsDestination ==
    \A b \in Frames \ {0} :
        \A j \in {x \in DOMAIN AllOps :
                     ~IsLeave(AllOps[x]) /\ Enclosing(AllOps, x) = b} :
            /\ \A p \in OpPairs(j) :
                  p[1] = 0 => /\ p[2] = AllOps[b].stmt.dest[1].local
                              /\ p[2] # 0 + AllOps[b].stmt.off
            /\ origin[j].part = "stmt" /\ SourceStmt(j).k = "Assign" =>
                  AllOps[j].stmt = RenamedStmt(SourceStmt(j), AllOps[b].stmt.off,
                                               AllOps[b].stmt.dest)

\* The offset in force right after op l was pushed.
OffsetAfter(l) == IF l < Len(AllOps) THEN origin[l + 1].off ELSE rnm.offset

\* C6: a lowered block ending in Return yields exactly one op for its
\* terminator, a Leave, and no guard; right after the Leave the offset is the
\* one that was in force when its matching Enter was pushed, and the offset
\* stack and the destination stack hold one entry less, the stack ending in
\* the offset restored.
LeaveRestoresOffset ==
    \A n \in 1..NumLowered :
        TermAt(n).k = "Return" =>
            /\ Cardinality(OpsFrom(n, "term")) = 1
            /\ OpsFrom(n, "guard") = {}
            /\ \A l \in OpsFrom(n, "term") :
                  /\ IsLeave(AllOps[l])
                  /\ Enclosing(AllOps, l) # 0
                  /\ origin[l].off = AllOps[Enclosing(AllOps, l)].stmt.off
                  /\ OffsetAfter(l) = origin[Enclosing(AllOps, l)].off
                  /\ (l = Len(AllOps) /\ n = Len(consumed)) =>
                        /\ Len(rnm.stack) = Cardinality(OpenFrames(AllOps))
                        /\ Len(rnm.returns) = Cardinality(OpenFrames(AllOps)) - 1
                        /\ Last(rnm.stack) = rnm.offset

\* An inlined call made inside an inlined call was just left: the offset is
\* back at the one of the outer callee, not at the one of the outermost body.
LeftNestedCall ==
    /\ outcome = Running
    /\ AllOps # <<>>
    /\ IsLeave(Last(AllOps))
    /\ Enclosing(AllOps, Enclosing(AllOps, Len(AllOps))) # 0
    /\ rnm.offset # 0
    /\ Len(rnm.stack) = 2

\* The location following the n-th in the trace.
NextLoc(n) == IF n < Len(consumed) THEN consumed[n + 1] ELSE peeked[1]

\* C7: a lowered block ending in SwitchInt yields exactly one guard, on the
\* discriminant place: Integer(values[i]) for every i such that the next
\* location is the i-th declared target, and OtherInteger of all declared
\* values in declared order when the next location is no declared target.
SwitchGuardNamesTheCaseTaken ==
    \A n \in 1..NumLowered :
        TermAt(n).k = "SwitchInt" =>
            /\ Cardinality(OpsFrom(n, "guard")) = 1
            /\ OpsFrom(n, "term") = {}
            /\ \A g \in OpsFrom(n, "guard") :
                  /\ AllOps[g].op = "Guard"
                  /\ AllOps[g].guard.val = TermAt(n).discr
                  /\ \A i \in DOMAIN TermAt(n).target_bbs :
                        TermAt(n).target_bbs[i] = NextLoc(n).bb_idx =>
                            AllOps[g].guard.kind =
                                Integer(TermAt(n).values[i].hi * SerHalf
                                        + TermAt(n).values[i].lo)
                  /\ (\A i \in DOMAIN TermAt(n).target_bbs :
                         TermAt(n).target_bbs[i] # NextLoc(n).bb_idx) =>
                        AllOps[g].guard.kind =
                            OtherInteger([i \in DOMAIN TermAt(n).values |->
                                            TermAt(n).values[i].hi * SerHalf
                                            + TermAt(n).values[i].lo])

\* C8: a lowered block ending in Assert yields no op for its terminator and
\* exactly one guard, Boolean(expected) on the condition place of the Assert,
\* whether another location follows in the trace or none does.
AssertGuardIsBoolean ==
    \A n \in 1..NumLowered :
        TermAt(n).k = "Assert" =>
            /\ Cardinality(OpsFrom(n, "guard")) = 1
            /\ OpsFrom(n, "term") = {}
            /\ \A g \in OpsFrom(n, "guard") :
                  AllOps[g] = [op |-> "Guard",
                               guard |-> [val |-> TermAt(n).cond,
                                          kind |-> [k |-> "Boolean",
                                                    b |-> TermAt(n).expected]]]

\* The trace ends on a block ending in Assert, its guard being the last op.
AssertLoweredLast ==
    /\ outcome = Running
    /\ peeked = None
    /\ consumed # <<>>
    /\ BlockOf(Last(consumed)).term.k = "Assert"
    /\ AllOps # <<>>
    /\ Last(AllOps).op = "Guard"
    /\ Last(AllOps).guard.kind.k = "Boolean"

\* C9: the ops of a delivered trace are the ops built without the first one
\* and without the last six, in the order built, and len() is the number of
\* ops built less seven.
TrimRemovesHeadAndSixTailOps ==
    Delivered =>
        /\ Len(built) >= 7
        /\ outcome.res.trace.ops =
              [i \in 1..(Len(built) - 7) |-> built[i + 1]]
        /\ len(outcome.res.trace) = Len(built) - 7
        /\ ops = outcome.res.trace.ops

\* A trace through an inlined call and round the loop is delivered.
DeliveredLoopTrace ==
    /\ Delivered
    /\ len(outcome.res.trace) >= 8
    /\ \E i \in DOMAIN outcome.res.trace.ops : IsLeave(outcome.res.trace.ops[i])
    /\ \E i \in DOMAIN outcome.res.trace.ops :
          outcome.res.trace.ops[i].op = "Guard"

\* Trimming has run: the end of the trace was reached.
TrimRan == Delivered \/ (outcome.k = "Panicked" /\ outcome.at = "trim")

\* The ops b begin with a storage-dead marker and end with three markers of
\* kind marker, an assignment of the constant false, an assignment and an
\* Enter.
BoundaryShape(b, marker) ==
    /\ Len(b) >= 7
    /\ IsStmt(b[1], "StorageDead")
    /\ \A i \in 3..5 : IsStmt(b[Len(b) - i], marker)
    /\ IsStmt(b[Len(b) - 2], "Assign")
    /\ b[Len(b) - 2].stmt.rvalue =
          [k |-> "Use",
           op |-> [k |-> "Constant", c |-> [k |-> "Bool", v |-> FALSE]]]
    /\ IsStmt(b[Len(b) - 1], "Assign")
    /\ IsEnter(b[Len(b)])

EndsInStopEnter(b) ==
    /\ b # <<>>
    /\ IsEnter(Last(b))
    /\ Last(b).stmt.operand.k = "Fn"
    /\ contains_stop_tracing(Last(b).stmt.operand.sym)

\* C11: a trace is delivered only if the last op built is an Enter whose
\* callee symbol names the trace-stop routine; on any other last op, an Enter
\* of another symbol included, lowering aborts and delivers no trace.
LastOpIsStopEnter ==
    TrimRan =>
        /\ Delivered => EndsInStopEnter(built)
        /\ ~EndsInStopEnter(built) => outcome.k = "Panicked"

\* The locals an operand, an rvalue, a statement and an op of a trace name.
OperandLocals(x) == IF x.k = "Place" THEN {x.place.local} ELSE {}

RvalueLocals(rv) ==
    CASE rv.k = "Use" -> OperandLocals(rv.op)
      [] rv.k \in {"BinaryOp", "CheckedBinaryOp"} ->
            OperandLocals(rv.op1) \cup OperandLocals(rv.op2)
      [] rv.k = "Ref" -> {rv.place.local}
      [] OTHER -> {}

ArgsLocals(args) == UNION {OperandLocals(args[a]) : a \in DOMAIN args}

\* An Enter with N arguments also defines the callee locals off+1..off+N.
StmtLocals(st) ==
    CASE st.k \in {"StorageLive", "StorageDead"} -> {st.local}
      [] st.k = "Assign" -> {st.place.local} \cup RvalueLocals(st.rvalue)
      [] st.k = "Enter" ->
            ArgsLocals(st.args) \cup {st.dest[1].local}
            \cup {st.off + a : a \in 1..Len(st.args)}
      [] st.k = "Call" -> ArgsLocals(st.args) \cup {st.dest[1].local}
      [] OTHER -> {}

OpLocals(o) == IF o.op = "Guard" THEN {o.guard.val.local} ELSE StmtLocals(o.stmt)

TraceLocals(o) == UNION {OpLocals(o[i]) : i \in DOMAIN o}

\* C12: every key of the local_decls of a delivered trace is a local named by
\* an op of the delivered trace; none stems only from the ops trimming
\* removed or from no op.
DeclsOnlyOfSurvivingOps ==
    Delivered =>
        DOMAIN outcome.res.trace.local_decls
            \subseteq TraceLocals(outcome.res.trace.ops)

\* The declaration the body of the n-th location has for its local l.
DeclOf(n, l) == SIR.bodies[consumed[n].symbol_name].local_decls[l + 1]

\* The delivered local_decls has decl as the declaration of local l.
HasDecl(l, decl) ==
    /\ l \in DOMAIN outcome.res.trace.local_decls
    /\ outcome.res.trace.local_decls[l] = decl

\* The place the guard of the n-th location was made from.
SourceGuardPlace(n) ==
    IF TermAt(n).k = "SwitchInt" THEN TermAt(n).discr ELSE TermAt(n).cond

\* C13: in a delivered trace every local an op names has an entry in
\* local_decls, holding the declaration of the body local it stems from: the
\* locals of statements, the callee argument locals off+1..off+N an Enter with
\* N arguments defines, and the local of the place of every guard.
EveryLocalDeclared ==
    Delivered =>
        \A i \in 2..(Len(built) - 6) :
            /\ \A p \in OpPairs(i) : HasDecl(p[2], DeclOf(origin[i].n, p[1]))
            /\ IsEnter(built[i]) =>
                  \A a \in 1..Len(built[i].stmt.args) :
                      HasDecl(built[i].stmt.off + a,
                              SIR.bodies[built[i].stmt.operand.sym]
                                  .local_decls[a + 1])
            /\ built[i].op = "Guard" =>
                  HasDecl(built[i].guard.val.local,
                          DeclOf(origin[i].n, SourceGuardPlace(origin[i].n).local))

\* C14: a location whose block ends in Unreachable makes lowering abort as
\* soon as it is reached: it is the last location taken from the trace, the
\* outcome is a panic of the loop, never a trace and never an error value.
UnreachableAborts ==
    \A n \in DOMAIN consumed :
        (HasSir(consumed[n].symbol_name) /\ TermAt(n).k = "Unreachable") =>
            /\ n = Len(consumed)
            /\ outcome.k = "Panicked"
            /\ outcome.at = "loop"
            /\ outcome.msg = "Traced unreachable code"

\* Lowering aborted on an Unreachable block after it had lowered others.
AbortedOnUnreachable ==
    /\ outcome.k = "Panicked"
    /\ outcome.msg = "Traced unreachable code"
    /\ Len(consumed) >= 4
    /\ \E i \in DOMAIN ops : ops[i].op = "Guard"

\* C15: a block ending in SwitchInt is lowered only when another location
\* follows it in the trace; when it is the last location lowering aborts in
\* the loop, so no guard is made up for it and no trace is delivered.
SwitchAtEndAborts ==
    \A n \in DOMAIN consumed :
        (HasSir(consumed[n].symbol_name) /\ TermAt(n).k = "SwitchInt") =>
            \/ /\ n = Len(consumed)
               /\ outcome.k = "Panicked"
               /\ outcome.at = "loop"
               /\ OpsFrom(n, "guard") = {}
            \/ /\ n <= NumLowered
               /\ n < Len(consumed) \/ peeked # None

\* Lowering aborted for want of a location after a SwitchInt block, ops of
\* earlier blocks having been pushed.
AbortedPeekingPastEnd ==
    /\ outcome.k = "Panicked"
    /\ outcome.msg = "no block to peek at"
    /\ Len(consumed) >= 2
    /\ ops # <<>>

\* C16: a Return is lowered only while an inlined call is open, its Leave
\* matching the Enter of that call; a Return met with no call open (with as
\* many Leave ops as Enter ops before it) makes lowering abort in the loop,
\* and the abort for unbalanced Enter and Leave happens in no other case.
ReturnWithoutCallAborts ==
    /\ \A n \in DOMAIN consumed :
          (HasSir(consumed[n].symbol_name) /\ TermAt(n).k = "Return") =>
              \/ /\ n <= NumLowered
                 /\ \A l \in OpsFrom(n, "term") : Enclosing(AllOps, l) # 0
              \/ /\ n = Len(consumed)
                 /\ outcome.k = "Panicked"
                 /\ outcome.at = "loop"
                 /\ OpsFrom(n, "term") = {}
    /\ (outcome.k = "Panicked"
        /\ outcome.msg = "Unbalanced enter/leave statements!") =>
            /\ OpenFrames(AllOps) = {0}
            /\ TermAt(Len(consumed)).k = "Return"

\* Lowering aborted on the Return of the outermost body, after an inlined
\* call had been entered and left.
AbortedOnUnbalancedReturn ==
    /\ outcome.k = "Panicked"
    /\ outcome.msg = "Unbalanced enter/leave statements!"
    /\ \E i \in DOMAIN ops : IsLeave(ops[i])

\* C17: inputs() of a delivered trace is the trace-inputs local declared by
\* the body of the last location lowered, none when that body declares none.
InputsOfLastBody ==
    Delivered =>
        inputs(outcome.res.trace) =
            SIR.bodies[Last(consumed).symbol_name].trace_inputs_local

\* A trace is delivered whose first body declares a trace-inputs local and
\* whose last body declares none.
DeliveredWithoutInputs ==
    /\ Delivered
    /\ SIR.bodies[consumed[1].symbol_name].trace_inputs_local # None
    /\ SIR.bodies[Last(consumed).symbol_name].trace_inputs_local = None
    /\ inputs(outcome.res.trace) = None

----------------------------------------------------------------------------
\* Reading a run of the interpreter.

\* A Return is about to run while a call is outstanding.
Returning ==
    /\ status.k = "Running"
    /\ HasBlock
    /\ CurrentBlock.term.k = "Return"
    /\ returns # <<>>

\* The address of place in the top frame, in the state after a step.
ResolvedAfter(place) == iplace_to_ptr(Last(frames'), place, mem', heap')

\* The address of local 0 of the top frame.
ReturnValue == Last(frames).locals + Last(frames).offsets[1]

\* C18: when a callee returns to a Call that assigns its result, the
\* destination place, resolved in the frame of the caller (the top frame
\* after the return), holds the bytes local 0 of the callee held when the
\* Return ran, as many as the type of the destination has.
ReturnCopiesLocalZero ==
    [][(Returning /\ Last(returns) # None /\ status'.k = "Running")
       => /\ frames' = Front(frames)
          /\ ResolvedAfter(Last(returns)[1][1]).ok
          /\ \A i \in 0..(TySize(Last(returns)[1][1].ty) - 1) :
                mem'[ResolvedAfter(Last(returns)[1][1]).val + i]
                    = RunStmts.val[ReturnValue + i]]_vars

\* func_call is back in its resume block with the 5 that foo returned in its
\* destination, field 1 of local 3.
CallerHoldsResult ==
    /\ status.k = "Running"
    /\ bodies = <<"func_call">>
    /\ bbidx = 2
    /\ Len(frames) = 1
    /\ mem[Last(frames).locals + 4] = 5

\* The blocks of body caller that end in a Call of callee naming a resume
\* block.
CallsOf(caller, callee) ==
    {blk \in Range(sir_body(caller)[1].blocks) :
        /\ blk.term.k = "Call"
        /\ blk.term.operand = Fn(callee)
        /\ blk.term.destination # None}

BlockPlaces(blk) ==
    UNION {{s.dest, s.src} : s \in {t \in Range(blk.stmts) :
                                        t.k \in {"Store", "MkRef"}}}
    \cup (IF blk.term.k = "Call"
          THEN Range(blk.term.args)
               \cup (IF blk.term.destination = None THEN {}
                     ELSE {blk.term.destination[1][1]})
          ELSE {})

\* The slot holding the pointer of an Indirect place as the specification has
\* it: at the offset of the local plus the offset that comes with the local.
StatedSlot(frame, place) ==
    frame.locals + frame.offsets[place.ptr.local + 1] + place.ptr.off

\* The addresses the specification allows for place: for an Indirect, the
\* pointer in the stated slot plus the offset of the Indirect, with or
\* without the offset of the pointer applied once more after the dereference.
StatedAddresses(frame, place, m, h) ==
    IF place.k = "Val"
    THEN {frame.locals + frame.offsets[place.local + 1] + place.off}
    ELSE IF read_ptr(m, h, StatedSlot(frame, place)).ok
    THEN {read_ptr(m, h, StatedSlot(frame, place)).val + place.off,
          read_ptr(m, h, StatedSlot(frame, place)).val + place.ptr.off
              + place.off}
    ELSE {}

\* C20: every Val or Indirect place of the block about to run resolves, in
\* the top frame, to the address the specification states: base plus offset
\* of the local plus off for a Val; for an Indirect the pointer read from the
\* slot at base plus offset of the outer local plus the outer offset, plus
\* the offsets that follow the dereference.
PlaceResolutionAsStated ==
    (status.k = "Running" /\ HasBlock)
        => \A pl \in BlockPlaces(CurrentBlock) :
              (/\ pl.k \in {"Val", "Indirect"}
               /\ iplace_to_ptr(Last(frames), pl, mem, heap).ok)
                 => iplace_to_ptr(Last(frames), pl, mem, heap).val
                       \in StatedAddresses(Last(frames), pl, mem, heap)

\* The memory the i-th statement of the current block finds: what the
\* statements before it left.
MemBefore(i) ==
    exec_stmts(Last(frames), mem, heap, SubSeq(CurrentBlock.stmts, 1, i - 1), 1)

\* The addresses of the memory of the caller.
CallerMemory == IoBase..(IoBase + IoSize - 1)

\* The bytes a Store reads in memory m: those of the constant, or those at
\* the address of the source place.
SourceBytes(src, m) ==
    IF src.k = "Const"
    THEN IF src.val.k = "U8" THEN <<src.val.v>> ELSE <<>>
    ELSE [j \in 1..TySize(src.ty) |->
            m[iplace_to_ptr(Last(frames), src, m, heap).val + j - 1]]

\* The statements of the current block that store through the pointer to
\* the trace inputs, in the frame of the body interpreted first.
StoresToCaller ==
    {i \in DOMAIN CurrentBlock.stmts :
        /\ Len(frames) = 1
        /\ CurrentBlock.stmts[i].k = "Store"
        /\ CurrentBlock.stmts[i].dest.k = "Indirect"
        /\ CurrentBlock.stmts[i].dest.ptr.local = 1}

\* Between memory m before and memory n after the Store st, the bytes st
\* addresses in the memory of the caller hold the source and no other byte
\* of the caller differs.
WrittenThrough(st, m, n) ==
    /\ \A j \in 1..Len(SourceBytes(st.src, m)) :
          n[iplace_to_ptr(Last(frames), st.dest, m, heap).val + j - 1]
              = SourceBytes(st.src, m)[j]
    /\ \A a \in CallerMemory :
          (\/ a < iplace_to_ptr(Last(frames), st.dest, m, heap).val
           \/ a >= iplace_to_ptr(Last(frames), st.dest, m, heap).val
                      + Len(SourceBytes(st.src, m)))
            => n[a] = m[a]

\* C21: a Store through the trace-inputs pointer of local 1 writes the source
\* into the memory of the caller at the addressed bytes at once, the memory
\* right after the statement holding it, and changes no other byte of the
\* caller; interpreting simple leaves 3 in field 1 of the inputs and the
\* other bytes of the caller as they were.
StoreReachesCallerAtOnce ==
    [][/\ (status.k = "Running" /\ HasBlock /\ RunStmts.ok)
            => \A i \in StoresToCaller :
                  WrittenThrough(CurrentBlock.stmts[i], MemBefore(i).val,
                                 MemBefore(i + 1).val)
       /\ (status.k = "Running" /\ bodies = <<"simple">>
              /\ status'.k = "Returned")
            => /\ mem'[IoBase + 1] = 3
               /\ \A a \in CallerMemory \ {IoBase + 1} : mem'[a] = mem[a]]_vars

\* simple has returned, the inputs IO(0, 0) now being IO(0, 3).
SimpleLeftThree ==
    /\ status.k = "Returned"
    /\ bodies = <<"simple">>
    /\ mem[IoBase] = 0
    /\ mem[IoBase + 1] = 3

\* The Store statements of the current block.
Stores == {i \in DOMAIN CurrentBlock.stmts : CurrentBlock.stmts[i].k = "Store"}

\* The address place resolves to in the top frame with memory m.
AddressIn(place, m) == iplace_to_ptr(Last(frames), place, m, heap).val

\* C22: right after a Store of a source place of type T, the size(T) bytes
\* at the address the destination resolved to are the bytes the source held,
\* whether the places are direct, behind a reference or at a field offset;
\* and a Store changes no byte outside its destination, so that a later
\* write to the source leaves the stored copy as it is.
StoreRoundTrip ==
    (status.k = "Running" /\ HasBlock /\ RunStmts.ok)
        => \A i \in Stores :
              /\ \A j \in 1..Len(SourceBytes(CurrentBlock.stmts[i].src,
                                             MemBefore(i).val)) :
                    MemBefore(i + 1).val[AddressIn(CurrentBlock.stmts[i].dest,
                                                   MemBefore(i).val) + j - 1]
                        = SourceBytes(CurrentBlock.stmts[i].src,
                                      MemBefore(i).val)[j]
              /\ \A a \in DOMAIN mem :
                    (\/ a < AddressIn(CurrentBlock.stmts[i].dest,
                                      MemBefore(i).val)
                     \/ a >= AddressIn(CurrentBlock.stmts[i].dest,
                                       MemBefore(i).val)
                                + Len(SourceBytes(CurrentBlock.stmts[i].src,
                                                  MemBefore(i).val)))
                      => MemBefore(i + 1).val[a] = MemBefore(i).val[a]

\* func_tupleref has returned on inputs (1, 2, 3): field 0 holds the 2 that
\* the copy a kept, although field 1, the source, was set to 5 after the copy
\* was taken.
CopyOutlivedSource ==
    /\ status.k = "Returned"
    /\ bodies = <<"func_tupleref">>
    /\ mem[IoBase] = 2
    /\ mem[IoBase + 1] = 5
    /\ mem[IoBase + 2] = 3

\* A block ending in a Call is about to run.
Calling ==
    /\ status.k = "Running"
    /\ HasBlock
    /\ CurrentBlock.term.k = "Call"

\* The body the Call of the current block names.
Callee == sir_body(CurrentBlock.term.operand.sym)[1]

\* The addresses of the block of frame f.
FrameBytes(f) == f.locals..(f.locals + f.layout[1] - 1)

\* C23: when a Call with arguments a1..aN has run, before block 0 of the
\* callee runs, one frame laid out and sized as the callee is pushed at a
\* block of its own, bbidx is 0, the callee is the innermost body, the resume
\* point of the Call is pushed, local i of the new frame holds the bytes of
\* ai (the value of a constant, or the bytes at the address ai resolves to in
\* the frame of the caller, as many as its type has), and the bytes of the
\* frames of the callers are as the statements of the block left them.
CallEntersCallee ==
    [][(Calling /\ status'.k = "Running")
       => /\ Len(frames') = Len(frames) + 1
          /\ Front(frames') = frames
          /\ Last(frames').layout = Callee.layout
          /\ Last(frames').offsets = Callee.offsets
          /\ \E i \in DOMAIN heap' :
                /\ heap'[i] = Block(Last(frames').locals, Callee.layout[1], TRUE)
                /\ \A k \in DOMAIN heap' \ {i} :
                      heap'[k].live
                        => \/ heap'[i].base + heap'[i].size <= heap'[k].base
                           \/ heap'[k].base + heap'[k].size <= heap'[i].base
          /\ bbidx' = 0
          /\ bodies' = Append(bodies, Callee.symbol_name)
          /\ returns' = Append(returns,
                               IF CurrentBlock.term.destination = None THEN None
                               ELSE Some(CurrentBlock.term.destination[1]))
          /\ \A i \in DOMAIN CurrentBlock.term.args :
                \A j \in 1..Len(SourceBytes(CurrentBlock.term.args[i],
                                            RunStmts.val)) :
                    mem'[Last(frames').locals + Last(frames').offsets[i + 1]
                            + j - 1]
                        = SourceBytes(CurrentBlock.term.args[i], RunStmts.val)[j]
          /\ \A k \in DOMAIN frames :
                \A a \in FrameBytes(frames[k]) : mem'[a] = RunStmts.val[a]]_vars

\* foo is entered from func_call and has not run yet: its locals 1 and 2
\* hold the arguments 5 and 7.
CalleeHoldsArguments ==
    /\ status.k = "Running"
    /\ bodies = <<"func_call", "foo">>
    /\ bbidx = 0
    /\ Len(frames) = 2
    /\ mem[Last(frames).locals + 1] = 5
    /\ mem[Last(frames).locals + 2] = 7

\* The bodies interpret can have been handed for the frame new created.
Handed ==
    {name \in EntryBodies :
        /\ sir_body(name)[1].layout = Last(frames).layout
        /\ sir_body(name)[1].offsets = Last(frames).offsets}

\* A Return is about to run with no call outstanding.
ReturningFromFirstBody ==
    /\ status.k = "Running"
    /\ HasBlock
    /\ CurrentBlock.term.k = "Return"
    /\ returns = <<>>

\* C24: interpret returns normally in two cases and no other: at once for a
\* body flagged TRACE_DEBUG, no statement run and nothing written; or on a
\* Return that finds no resume point outstanding, and then the frame new
\* created is the only frame left.  A flagged body is never run, and a
\* Return without resume point whose block ran through does end interpret.
InterpretReturnsInTwoCases ==
    [][/\ (status.k # "Returned" /\ status'.k = "Returned")
            => \/ /\ status.k = "Ready"
                  /\ \E name \in Handed : TRACE_DEBUG \in sir_body(name)[1].flags
                  /\ UNCHANGED <<frames, bbidx, bodies, returns, mem, heap>>
               \/ /\ ReturningFromFirstBody
                  /\ RunStmts.ok
                  /\ mem' = RunStmts.val
                  /\ Len(frames') = 1
                  /\ frames'[1].locals = heap'[1].base
                  /\ heap'[1].live
       /\ (status.k = "Ready" /\ status'.k = "Running")
            => TRACE_DEBUG \notin sir_body(bodies'[1])[1].flags
       /\ (ReturningFromFirstBody /\ RunStmts.ok) => status'.k = "Returned"]_vars

\* interpret has returned from func_call after the frames of foo and bar
\* were pushed and freed: the first frame alone is left.
ReturnedWithFirstFrameOnly ==
    /\ status.k = "Returned"
    /\ bodies = <<"func_call">>
    /\ Len(frames) = 1
    /\ Len(heap) = 3
    /\ ~heap[2].live
    /\ ~heap[3].live

\* The live blocks of heap h that are the memory of frame f.
BlocksOf(h, f) ==
    {k \in DOMAIN h :
        h[k].live /\ h[k].base = f.locals /\ h[k].size = f.layout[1]}

\* Every frame of stack fs has one live block of heap h, no two frames share
\* one, and every live block is the memory of a frame of the stack.
Owned(fs, h) ==
    /\ \A i \in DOMAIN fs : Cardinality(BlocksOf(h, fs[i])) = 1
    /\ \A i, j \in DOMAIN fs : i # j => BlocksOf(h, fs[i]) # BlocksOf(h, fs[j])
    /\ \A k \in DOMAIN h : h[k].live => \E i \in DOMAIN fs : k \in BlocksOf(h, fs[i])

Unimplemented ==
    {i \in DOMAIN CurrentBlock.stmts :
        CurrentBlock.stmts[i].k \notin {"Store", "MkRef", "Nop"}}

\* The terminator of the current block is one interpret cannot run: no Call
\* and no Return, a Call through an operand that is no symbol, or a Call of
\* a symbol without body.
TerminatorAborts ==
    \/ CurrentBlock.term.k \notin {"Call", "Return"}
    \/ /\ CurrentBlock.term.k = "Call"
       /\ \/ CurrentBlock.term.operand.k # "Fn"
          \/ sir_body(CurrentBlock.term.operand.sym) = None

\* C26: a block whose statements run through and whose terminator is a Call
\* of a symbol without body, a Call through an operand that is no symbol, or
\* anything but Call and Return, ends the run with a panic; so does the
\* first statement that is no Store, MkRef or Nop.  The statement or
\* terminator that panics writes nothing, memory staying as the statements
\* before it left it, and the frames, the heap, the bodies, the resume points
\* and bbidx are as before.  Nothing runs after a panic.
UnimplementedAborts ==
    [][/\ status.k # "Panicked"
       /\ (status.k = "Running" /\ HasBlock /\ RunStmts.ok /\ TerminatorAborts)
            => /\ status'.k = "Panicked"
               /\ mem' = RunStmts.val
               /\ UNCHANGED <<frames, bbidx, bodies, returns, heap>>
       /\ (status.k = "Running" /\ HasBlock)
            => \A i \in Unimplemented :
                  (/\ MemBefore(i).ok
                   /\ \A k \in Unimplemented : k >= i)
                    => /\ status'.k = "Panicked"
                       /\ mem' = MemBefore(i).val
                       /\ UNCHANGED <<frames, bbidx, bodies, returns, heap>>]_vars

\* func_binop panicked on its BinaryOp: the store of 4 to field 2 before it
\* is in the memory of the caller, the store after it never ran.
PanickedOnStatement ==
    /\ status.k = "Panicked"
    /\ bodies = <<"func_binop">>
    /\ Len(frames) = 1
    /\ mem[IoBase + 2] = 4
    /\ mem[IoBase] # 4

\* The slot of local 1 of the top frame.
InputsSlot == Last(frames).locals + Last(frames).offsets[2]

\* C27: new(body) leaves one frame, laid out as body, on a block of its own
\* of the size of the layout of body at an address aligned to it, and bbidx
\* 0; set_trace_inputs(p) then writes p to the pointer-wide slot of local 1
\* of that frame, no other byte of memory and nothing else of the
\* interpreter changing.
NewThenInputs ==
    [][/\ status.k = "None"
            => /\ status'.k = "New"
               /\ Len(frames') = 1
               /\ \E name \in EntryBodies :
                     /\ frames'[1].layout = sir_body(name)[1].layout
                     /\ frames'[1].offsets = sir_body(name)[1].offsets
               /\ heap' = <<Block(frames'[1].locals, frames'[1].layout[1], TRUE)>>
               /\ frames'[1].locals % frames'[1].layout[2] = 0
               /\ frames'[1].locals + frames'[1].layout[1] <= MemTop
               /\ bbidx' = 0
               /\ \A a \in DOMAIN mem : a \notin FrameBytes(frames'[1])
                                            => mem'[a] = mem[a]
       /\ status.k = "New"
            => /\ status'.k = "Ready"
               /\ PtrOfBytes([j \in 1..PtrSize |-> mem'[InputsSlot + j - 1]])
                    = IoBase
               /\ \A a \in DOMAIN mem :
                     (a < InputsSlot \/ a >= InputsSlot + PtrSize)
                        => mem'[a] = mem[a]
               /\ UNCHANGED <<frames, bbidx, bodies, returns, heap>>]_vars

\* The frame of func_call is ready: its local 1 points to the inputs and the
\* bytes after the slot are as alloc handed them out.
InputsPointerSet ==
    /\ status.k = "Ready"
    /\ Last(frames).layout = <<6, 2>>
    /\ mem[Last(frames).locals] = IoBase
    /\ mem[Last(frames).locals + 1] = 0
    /\ \A a \in 2..5 : mem[Last(frames).locals + a] = 255

\* Frame f has the tables of body b, the byte ranges of the locals of b at
\* the offsets of f are pairwise disjoint and lie in the block of f, which
\* has the size of the layout, and the table has one offset for every
\* declaration.
RangesWithin(b, f) ==
    /\ f.layout = b.layout
    /\ f.offsets = b.offsets
    /\ Len(f.offsets) = Len(b.local_decls)
    /\ \A l \in DOMAIN f.offsets :
          f.offsets[l] + TySize(b.local_decls[l]) <= f.layout[1]
    /\ \A l1, l2 \in DOMAIN f.offsets :
          l1 # l2
            => \/ TySize(b.local_decls[l1]) = 0
               \/ TySize(b.local_decls[l2]) = 0
               \/ f.offsets[l1] + TySize(b.local_decls[l1]) <= f.offsets[l2]
               \/ f.offsets[l2] + TySize(b.local_decls[l2]) <= f.offsets[l1]
    /\ \E k \in DOMAIN heap : heap[k] = Block(f.locals, f.layout[1], TRUE)

\* Every offset of frame f is less than the size of the frame.
OffsetsBelowSize(b, f) ==
    \A l \in DOMAIN f.offsets : f.offsets[l] < f.layout[1]

\* Every offset of frame f is at most the size of the frame, and less for a
\* local of body b that takes bytes.
OffsetsUpToSize(b, f) ==
    \A l \in DOMAIN f.offsets :
        /\ f.offsets[l] <= f.layout[1]
        /\ (l \in DOMAIN b.local_decls /\ TySize(b.local_decls[l]) > 0)
              => f.offsets[l] < f.layout[1]

----------------------------------------------------------------------------
\* Termination.

\* An iteration of the loop, or the step that ends it, can be taken.
CanStep ==
    \/ peeked = None
    \/ bodies_get(peeked[1].symbol_name) = None
    \/ Following(peeked[1], callers) # {}

\* C29: lowering a finite sequence of locations terminates: every iteration
\* of the loop consumes exactly one location and never more than the trace
\* holds, the step after the last location ends the run, a run that has not
\* ended can take its next step, and in the end lowering has delivered a
\* trace, returned NoSir or panicked.
LoweringTerminates ==
    /\ [][/\ outcome = Running
          /\ \/ /\ peeked # None
                /\ Len(consumed) < MaxLocs
                /\ consumed' = Append(consumed, peeked[1])
             \/ /\ peeked = None
                /\ Len(consumed) <= MaxLocs
                /\ consumed' = consumed
                /\ outcome' # Running]_vars
    /\ [](outcome = Running => CanStep)
    /\ <>(outcome # Running)

\* Lowering has ended after consuming every location of a trace as long as
\* traces get.
LoweredLongestTrace ==
    /\ outcome # Running
    /\ outcome.k = "Returned"
    /\ Len(consumed) = MaxLocs

\* An iteration of the loop of interpret can be taken: one of CallStep,
\* ReturnStep, FinishStep and PanicStep is enabled.
CanIterate ==
    \/ ~HasBlock
    \/ CurrentBlock.term.k # "Call"
    \/ CurrentBlock.term.operand.k # "Fn"
    \/ sir_body(CurrentBlock.term.operand.sym) = None
    \/ FreeBases(heap, sir_body(CurrentBlock.term.operand.sym)[1].layout) # {}

\* C30: once interpret runs a body it eventually returns normally or aborts,
\* whatever the body and the bodies it calls: as long as it runs it can take
\* its next iteration, and it never executes forever.
InterpretEnds ==
    /\ [](status.k = "Running" => CanIterate)
    /\ (status.k = "Running")
          ~> (status.k \in {"Returned", "Panicked", "Undefined"})

----------------------------------------------------------------------------
\* Lowerings side by side.

\* The result TirTrace::new gives on the trace of thread t when it runs
\* alone on the populated registry.
AloneResult(t) == run_alone(Session(sessions[t].locs), SIR, debug).outcome

HasDelivered(t) ==
    /\ sessions[t].outcome # Running
    /\ sessions[t].outcome.k = "Returned"
    /\ sessions[t].outcome.res.k = "Ok"

\* The trace thread t has delivered.
TraceOf(t) == sessions[t].outcome.res.trace

\* C32: of two traces recorded between the same head and tail, the one with
\* more iterations of the same loop lowers to the longer trace: the length
\* never decreases with the number of iterations, and grows whenever the
\* blocks of one iteration contribute a statement or a guard.
LengthGrowsWithIterations ==
    \A t, u \in DOMAIN sessions :
    \A kind \in {"ext", "f"} :
    \A n, m \in 0..MaxWork :
        (/\ n < m
         /\ sessions[t].locs = Work(n, kind)
         /\ sessions[u].locs = Work(m, kind)
         /\ HasDelivered(t)
         /\ HasDelivered(u))
          => /\ len(TraceOf(t)) <= len(TraceOf(u))
             /\ \/ len(TraceOf(t)) < len(TraceOf(u))
                \/ \A i \in 1..Len(WorkIteration(kind)) :
                      /\ BlockOf(WorkIteration(kind)[i]).stmts = <<>>
                      /\ BlockOf(WorkIteration(kind)[i]).term.k
                            \in {"Goto", "Drop", "DropAndReplace",
                                 "Unimplemented"}

\* Two threads have delivered the traces of one and of three iterations of
\* the same loop, the second longer than the first.
LongerWorkLongerTrace ==
    /\ sessions # <<>>
    /\ sessions[1].locs = Work(1, "f")
    /\ sessions[2].locs = Work(3, "f")
    /\ HasDelivered(1)
    /\ HasDelivered(2)
    /\ len(TraceOf(1)) < len(TraceOf(2))

----------------------------------------------------------------------------
\* Random access.

\* C33: reading index idx of a recorded trace gives its location number
\* idx (counting from 0) for every idx below its length, and panics for
\* every idx from its length on.
RawLocBoundsChecked ==
    read # None
      => IF read[1].idx < raw_len(sessions[1].locs)
         THEN /\ read[1].got.ok
              /\ read[1].got.val = sessions[1].locs[read[1].idx + 1]
         ELSE /\ ~read[1].got.ok
              /\ ~IsUndefined(read[1].got)

\* The index just past the end of a recorded trace of work has been read.
ReadPastTheEnd ==
    /\ read # None
    /\ sessions[1].locs # <<>>
    /\ read[1].idx = raw_len(sessions[1].locs)
    /\ ~read[1].got.ok

----------------------------------------------------------------------------
\* 128-bit wrappers.

\* C34: the wrappers round-trip: val() of the wrapper built from v is v, for
\* every u128 and every i128 v, negative ones included, the wrapper holding
\* v as two halves that are each a u64.
Ser128RoundTrips ==
    ser # None
      => /\ ser[1].got = ser[1].v
         /\ ser[1].s.hi \in 0..(SerHalf - 1)
         /\ ser[1].s.lo \in 0..(SerHalf - 1)
         /\ ser[1].s.hi * SerHalf + ser[1].s.lo = ser[1].v % (SerHalf * SerHalf)

\* A negative i128 whose two halves are both nonzero has made the round
\* trip.
NegativeRoundTrip ==
    /\ ser # None
    /\ ser[1].ty = "i128"
    /\ ser[1].v < 0
    /\ ser[1].s.hi > 0
    /\ ser[1].s.lo > 0
    /\ ser[1].got = ser[1].v

----------------------------------------------------------------------------
\* The order of the ops.

\* The terminators that give no guard.
Unconditional ==
    {"Goto", "Return", "Drop", "DropAndReplace", "Call", "Unimplemented"}

\* C35: the ops built keep the order of execution: the locations are lowered
\* once each in the order of the trace, and the ops of a location are one
\* op per statement of its block, in the order of the block and of the kind
\* of the statement (a Nop or Unimplemented statement unchanged), then at
\* most one Enter, Call or Leave op, then at most one guard, and no guard
\* after a Goto, Return, Drop, DropAndReplace, Call or Unimplemented
\* terminator.
OpsInExecutionOrder ==
    /\ Len(origin) = Len(AllOps)
    /\ \A i, j \in DOMAIN origin : i < j => origin[i].n <= origin[j].n
    /\ \A i \in DOMAIN origin : origin[i].n \in 1..NumLowered
    /\ \A n \in 1..NumLowered :
          /\ Cardinality(OpsFrom(n, "stmt")) = Len(BlockAt(n).stmts)
          /\ \A i \in OpsFrom(n, "stmt") :
                /\ AllOps[i].op = "Statement"
                /\ origin[i].i \in DOMAIN BlockAt(n).stmts
                /\ AllOps[i].stmt.k = SourceStmt(i).k
                /\ SourceStmt(i).k \in {"Nop", "Unimplemented"}
                      => AllOps[i].stmt = SourceStmt(i)
                /\ \A j \in OpsFrom(n, "stmt") :
                      i < j => origin[i].i < origin[j].i
          /\ Cardinality(OpsFrom(n, "term")) <= 1
          /\ \A i \in OpsFrom(n, "term") :
                /\ AllOps[i].op = "Statement"
                /\ AllOps[i].stmt.k \in {"Enter", "Call", "Leave"}
                /\ \A j \in OpsFrom(n, "stmt") : j < i
          /\ Cardinality(OpsFrom(n, "guard")) <= 1
          /\ \A i \in OpsFrom(n, "guard") :
                /\ AllOps[i].op = "Guard"
                /\ \A j \in OpsFrom(n, "stmt") \cup OpsFrom(n, "term") : j < i
          /\ TermAt(n).k \in Unconditional => OpsFrom(n, "guard") = {}
          /\ (TermAt(n).k = "SwitchInt" /\ n < Len(consumed))
                => /\ OpsFrom(n, "guard") # {}
                   /\ n + 1 <= NumLowered
                        => Cardinality(OpsFrom(n + 1, "stmt"))
                              = Len(BlockAt(n + 1).stmts)

\* A trace through the loop of main has been lowered: a block with a Nop
\* and a Call of a symbol without SIR, and a SwitchInt whose next location
\* was peeked at and lowered after it.
LoopLoweredInOrder ==
    /\ outcome = Running
    /\ \E n \in 1..NumLowered :
          /\ consumed[n] = SirLoc("main", 3)
          /\ Cardinality(OpsFrom(n, "stmt")) = 1
          /\ Cardinality(OpsFrom(n, "term")) = 1
    /\ \E n \in 1..(NumLowered - 1) :
          /\ TermAt(n).k = "SwitchInt"
          /\ OpsFrom(n, "guard") # {}
          /\ OpsFrom(n + 1, "stmt") # {}
    /\ \E i \in DOMAIN AllOps : IsStmt(AllOps[i], "Call")

----------------------------------------------------------------------------
\* The accumulator.

\* The number of locals of the body an Enter op inlines.
CalleeLocals(o) == Len(SIR.bodies[o.stmt.operand.sym].local_decls)

RECURSIVE EnteredLocals(_, _)
\* The locals of all callees entered by the first j ops of o.
EnteredLocals(o, j) ==
    IF j = 0 THEN 0
    ELSE EnteredLocals(o, j - 1) + (IF IsEnter(o[j]) THEN CalleeLocals(o[j]) ELSE 0)

\* The number of locals of the body of the first location.
FirstLocals == Len(SIR.bodies[consumed[1].symbol_name].local_decls)

\* C36: the accumulator is set from the number of locals of the body of the
\* first location and never decreases; it is that number plus the locals of
\* every callee entered so far, the offset of an inlined call is the
\* accumulator as it was when the call was entered, and so no two inlined
\* calls of a trace share a renamed index, whether one encloses the other or
\* the first was left before the second was entered.
AccumulatorGrows ==
    /\ [](/\ rnm.acc = None <=> NumLowered = 0
          /\ rnm.acc # None
               => rnm.acc[1] = FirstLocals + EnteredLocals(AllOps, Len(AllOps))
          /\ \A j \in DOMAIN AllOps :
                IsEnter(AllOps[j])
                  => /\ AllOps[j].stmt.off
                          = FirstLocals + EnteredLocals(AllOps, j - 1)
                     /\ \A i \in 1..(j - 1) :
                          IsEnter(AllOps[i])
                            => AllOps[i].stmt.off + CalleeLocals(AllOps[i])
                                  <= AllOps[j].stmt.off)
    /\ [][/\ rnm.acc # None => (rnm'.acc # None /\ rnm'.acc[1] >= rnm.acc[1])
          /\ (rnm.acc = None /\ rnm'.acc # None)
                => /\ consumed = <<>>
                   /\ rnm'.acc[1] >= Len(SIR.bodies[consumed'[1].symbol_name]
                                                 .local_decls)]_vars

\* f has been inlined twice, the first call left before the second was
\* entered, and the second has the higher offset.
SiblingCallsApart ==
    \E i, j \in DOMAIN AllOps :
       /\ i < j
       /\ IsEnter(AllOps[i])
       /\ IsEnter(AllOps[j])
       /\ AllOps[i].stmt.operand = Fn("f")
       /\ AllOps[j].stmt.operand = Fn("f")
       /\ \E l \in (i + 1)..(j - 1) :
             IsLeave(AllOps[l]) /\ Enclosing(AllOps, l) = i
       /\ AllOps[j].stmt.off >= AllOps[i].stmt.off + CalleeLocals(AllOps[i])

----------------------------------------------------------------------------
\* C37: a guard names its place in the index space of the statements around
\* it: the guard of a block lowered under offset k has the discriminant or the
\* condition of the block's terminator with its local raised by k, or the
\* destination place of the caller when that local is local 0 of an inlined
\* callee.
GuardPlaceRenamed ==
    \A i \in DOMAIN AllOps :
        AllOps[i].op = "Guard" =>
            /\ origin[i].off = FrameOff(AllOps, Enclosing(AllOps, i))
            /\ \/ /\ SourceGuardPlace(origin[i].n).local = 0
                  /\ Enclosing(AllOps, i) = 0
               \/ AllOps[i].guard.val =
                     RenamedPlace(SourceGuardPlace(origin[i].n), origin[i].off,
                                  FrameDest(AllOps, Enclosing(AllOps, i)))

----------------------------------------------------------------------------
RECURSIVE CountKind(_, _, _)
\* How many of the first k ops of o are statements of kind kd.
CountKind(o, k, kd) ==
    IF k = 0 THEN 0
    ELSE CountKind(o, k - 1, kd)
         + (IF o[k].op = "Statement" /\ o[k].stmt.k = kd THEN 1 ELSE 0)

\* The symbol of the body op i of the delivered trace was pushed for (the
\* trimming removed the first op: op i is op i + 1 of the ops built).
BodyOfOp(i) == consumed[origin[i + 1].n].symbol_name

\* C38: in a delivered trace no prefix of the ops has more Leave than Enter
\* ops, and every op lies in the frame of the body it was pushed for: an op
\* of an inlined callee lies after the Enter of its call and before the
\* matching Leave, an op of the outermost body lies in no inlined call.
EnterLeaveNested ==
    Delivered =>
        LET T == outcome.res.trace.ops
        IN  /\ \A k \in 0..Len(T) :
                  CountKind(T, k, "Leave") <= CountKind(T, k, "Enter")
            /\ \A i \in DOMAIN T :
                  /\ T[i] = built[i + 1]
                  /\ IF Enclosing(T, i) = 0
                     THEN BodyOfOp(i) = consumed[1].symbol_name
                     ELSE T[Enclosing(T, i)].stmt.operand = Fn(BodyOfOp(i))

\* A delivered trace in which g was inlined within f, both were left, and
\* ops of the outermost body follow.
DeliveredNestedCalls ==
    /\ Delivered
    /\ LET T == outcome.res.trace.ops
       IN  \E e1, e2, l2, l1, i \in DOMAIN T :
              /\ e1 < e2 /\ e2 < l2 /\ l2 < l1 /\ l1 < i
              /\ IsEnter(T[e1]) /\ T[e1].stmt.operand = Fn("f")
              /\ IsEnter(T[e2]) /\ T[e2].stmt.operand = Fn("g")
              /\ IsLeave(T[l2]) /\ Enclosing(T, l2) = e2
              /\ IsLeave(T[l1]) /\ Enclosing(T, l1) = e1
              /\ Enclosing(T, i) = 0
              /\ \E j \in (e2 + 1)..(l2 - 1) : BodyOfOp(j) = "g"

----------------------------------------------------------------------------
\* The n-th location of the trace is a block ending in a call without
\* destination.
Diverges(n) ==
    /\ HasSir(consumed[n].symbol_name)
    /\ TermAt(n).k = "Call"
    /\ TermAt(n).destination = None

\* C39: the iteration on a block whose Call terminator has no destination
\* panics on the unwrap of the renamed destination: it is the last location
\* consumed, no Enter and no Call op stems from it, and no trace and no
\* error is returned, whether the callee has SIR or not.
DivergingCallPanics ==
    \A n \in DOMAIN consumed :
        Diverges(n) =>
            /\ n = Len(consumed)
            /\ outcome = Panicked("loop", "unwrap on None")
            /\ Len(origin) = Len(ops)
            /\ \A i \in DOMAIN ops :
                  origin[i].n = n => ~(IsEnter(ops[i]) \/ IsStmt(ops[i], "Call"))
            /\ ~Delivered

\* The trace reached the diverging call of f, which has SIR, after ops of
\* other blocks were built.
PanickedOnDivergingCall ==
    /\ consumed # <<>>
    /\ Diverges(Len(consumed))
    /\ HasSir(symbol(TermAt(Len(consumed)).operand)[1])
    /\ ops # <<>>
    /\ outcome.k = "Panicked"

----------------------------------------------------------------------------
\* The body on top of the body stack.
InnermostBody == sir_body(Last(bodies))[1]

====
